---- MODULE Spec2Model ----
(***************************************************************************)
(* Activity reports of RewindDB (src/rewinddb/core.py): get_app_usage,     *)
(* get_active_hours and get_meetings, with the query layer (get_segments,  *)
(* get_events) that feeds them, and the application usage part of          *)
(* get_statistics (_get_app_usage_stats).                                  *)
(*                                                                         *)
(* Representation.  A datetime is a whole number of seconds since          *)
(* 1970-01-01T00:00:00 UTC; the table columns startDate/endDate hold       *)
(* milliseconds since that instant.  A value that the code rounds to two   *)
(* decimals (round(x, 2)) is held as an integer number of hundredths.      *)
(* None/NULL is the value None for datetimes and NULL for text columns.    *)
(* A Python dict whose iteration order reaches the output is a sequence of *)
(* records with a field key, in insertion order; the hour and date dicts,  *)
(* which are read by key or sorted, are functions.  One call runs at a     *)
(* time: pc names the running function, app, act and meet hold its locals  *)
(* and result the report returned last; calls holds the invocations that   *)
(* run side by side, each with locals of its own.  Spec explores the       *)
(* three report builders on small tables, WideSpec explores get_app_usage  *)
(* on tables with more entries than a leaderboard shows, StatsSpec         *)
(* explores get_statistics on tables whose timestamps are texts,           *)
(* PairSpec explores two invocations of the builders that take turns,      *)
(* CalendarSpec explores get_meetings on calendars of nearly equal totals, *)
(* WalkSpec steps the while loops of the hour and day walks round by       *)
(* round, and DisplaySpec explores display_app_usage of activity_cli.py.   *)
(***************************************************************************)
EXTENDS Integers, Sequences, FiniteSets, TLC

VARIABLES rows, args, clock, pc, app, act, meet, result, calls

vars == <<rows, args, clock, pc, app, act, meet, result, calls>>

----------------------------------------------------------------------------
(* Bounds of the model. *)

\* largest number of rows in the table
MaxRows == 3

\* how many seconds the clock may advance between two readings of now()
MaxDrift == 1

\* the number of rows of a wide table: more apps, urls and windows than
\* a leaderboard shows
MaxWide == 11

----------------------------------------------------------------------------
(* Program constants. *)

gap_threshold == 60

HoursPerDay == 24

SecondsPerHour == 3600

MsPerSecond == 1000

TopApps == 10

TopWindows == 5

SecondsPerDay == HoursPerDay * SecondsPerHour

None == -1

NULL == "NULL"

----------------------------------------------------------------------------
(* datetime arithmetic *)

\* datetime(1970, 1, 1 + d, h, m, s)
T(d, h, m, s) == ((d * HoursPerDay + h) * 60 + m) * 60 + s

\* datetime.hour
HourOf(t) == (t \div SecondsPerHour) % HoursPerDay

\* datetime.date(), as the number of days since 1970-01-01
DateOf(t) == t \div SecondsPerDay

\* date.isoformat(): "1970-01-DD", held as <<year, month, day>>; strings of
\* this shape compare as these triples do (all dates of the model lie in
\* January 1970)
IsoFormat(d) == <<1970, 1, 1 + d>>

\* (t + timedelta(hours=1)).replace(minute=0, second=0, microsecond=0)
NextHour(t) == ((t + SecondsPerHour) \div SecondsPerHour) * SecondsPerHour

\* (t + timedelta(days=1)).replace(hour=0, minute=0, second=0, microsecond=0)
NextDay(t) == ((t + SecondsPerDay) \div SecondsPerDay) * SecondsPerDay

\* timedelta(days, hours, minutes, seconds).total_seconds()
TimeDelta(days, hours, minutes, seconds) ==
    ((days * HoursPerDay + hours) * 60 + minutes) * 60 + seconds

Max(a, b) == IF a >= b THEN a ELSE b

\* the quotient cut off after two decimals, not rounded
Round2_truncated(num, den) ==
    (num \div den) * 100 + ((num % den) * 100) \div den

\* round(num / den, 2) in hundredths, for num >= 0 and den > 0: the nearest
\* hundredth.  At an exact tie Python rounds the binary float, which lies on
\* one side or the other; here a tie goes to the even hundredth.  The
\* durations of Pool are multiples of 60 s or odd, so that no conversion of
\* seconds to hours meets a tie.
Round2(num, den) ==
    LET q == num \div den
        r == num % den
        c == (r * 100) \div den
        f == (r * 100) % den
        up == \/ 2 * f > den
              \/ 2 * f = den /\ c % 2 = 1
    IN  q * 100 + c + (IF up THEN 1 ELSE 0)

RECURSIVE SumSeq(_)
SumSeq(s) == IF s = <<>> THEN 0 ELSE Head(s) + SumSeq(Tail(s))

----------------------------------------------------------------------------
(* The query layer *)

\* RewindDB._ms_to_datetime
ms_to_datetime(ms) == ms \div MsPerSecond

\* the WHERE clause of get_segments and get_events
InWindow(row, start_timestamp, end_timestamp) ==
    \/ row.startDate >= start_timestamp /\ row.startDate <= end_timestamp
    \/ row.endDate >= start_timestamp /\ row.endDate <= end_timestamp
    \/ row.startDate <= start_timestamp /\ row.endDate >= end_timestamp

\* ORDER BY startDate: rows of equal startDate stay in table order
RECURSIVE InsertByStartDate(_, _)
InsertByStartDate(sorted, row) ==
    IF sorted = <<>> THEN <<row>>
    ELSE IF sorted[Len(sorted)].startDate <= row.startDate
         THEN Append(sorted, row)
         ELSE Append(InsertByStartDate(SubSeq(sorted, 1, Len(sorted) - 1), row),
                     sorted[Len(sorted)])

RECURSIVE OrderByStartDate(_)
OrderByStartDate(table) ==
    IF table = <<>> THEN <<>>
    ELSE InsertByStartDate(OrderByStartDate(SubSeq(table, 1, Len(table) - 1)),
                           table[Len(table)])

SelectRows(table, start_timestamp, end_timestamp) ==
    OrderByStartDate(SelectSeq(table,
        LAMBDA row : InWindow(row, start_timestamp, end_timestamp)))

\* RewindDB.get_segments, for a table of millisecond timestamps (when the
\* query selects nothing, the retry with text bounds selects nothing either:
\* no integer column value lies between two texts)
get_segments(table, from, to) ==
    LET selected == SelectRows(table, from * MsPerSecond, to * MsPerSecond)
    IN  [k \in 1..Len(selected) |->
            [id |-> selected[k].id,
             start_time |-> ms_to_datetime(selected[k].startDate),
             end_time |-> ms_to_datetime(selected[k].endDate),
             application |-> selected[k].bundleID,
             window |-> selected[k].windowName,
             browser_url |-> selected[k].browserUrl,
             duration_seconds |->
                 (selected[k].endDate - selected[k].startDate) \div MsPerSecond]]

\* RewindDB.get_events
get_events(table, from, to) ==
    LET selected == SelectRows(table, from * MsPerSecond, to * MsPerSecond)
    IN  [k \in 1..Len(selected) |->
            [id |-> selected[k].id,
             start_time |-> ms_to_datetime(selected[k].startDate),
             end_time |-> ms_to_datetime(selected[k].endDate),
             calendar |-> selected[k].calendarName,
             duration_seconds |->
                 (selected[k].endDate - selected[k].startDate) \div MsPerSecond]]

----------------------------------------------------------------------------
(* Helpers for dicts *)

\* d.setdefault(k, 0) on a dict held as a function
SetDefault(d, k) == IF k \in DOMAIN d THEN d ELSE d @@ (k :> 0)

\* the empty dict
EmptyDict == [k \in {} |-> 0]

\* {h: 0 for h in range(24)}
ZeroHours == [h \in 0..(HoursPerDay - 1) |-> 0]

\* tuple comparison of two isoformat keys
IsoLess(a, b) ==
    \/ a[1] < b[1]
    \/ a[1] = b[1] /\ a[2] < b[2]
    \/ a[1] = b[1] /\ a[2] = b[2] /\ a[3] < b[3]

\* the keys of a date-keyed dict, latest date first
RECURSIVE SortedKeys_latest_first(_)
SortedKeys_latest_first(keys) ==
    IF keys = {} THEN <<>>
    ELSE LET last == CHOOSE k \in keys : \A o \in keys : o = k \/ IsoLess(o, k)
         IN  <<last>> \o SortedKeys_latest_first(keys \ {last})

\* sorted(d.items()) of a date-keyed dict: the keys in ascending order
RECURSIVE SortedKeys(_)
SortedKeys(keys) ==
    IF keys = {} THEN <<>>
    ELSE LET least == CHOOSE k \in keys : \A o \in keys : o = k \/ IsoLess(k, o)
         IN  <<least>> \o SortedKeys(keys \ {least})

\* the window of a call: (start_time, end_time) when both are given, else
\* (now - delta, now)
IsAbsolute(a) == a.start_time # None /\ a.end_time # None

Delta(a) == TimeDelta(a.days, a.hours, a.minutes, a.seconds)

\* datetime.datetime.now(datetime.timezone.utc): a reading is never earlier
\* than the previous one
LastClock == T(1, 12, 0, 0) + 2 * MaxDrift

ReadNow(now) ==
    /\ now \in clock..(clock + MaxDrift)
    /\ now <= LastClock
    /\ clock' = now

\* the locals of a function that is not running
NoFrame == [i |-> 0]

NoResult == [fn |-> "none"]

----------------------------------------------------------------------------
(* get_active_hours *)

\* sorted(segments, key=lambda x: x['start_time']): stable
RECURSIVE InsertByStartTime(_, _)
InsertByStartTime(sorted, segment) ==
    IF sorted = <<>> THEN <<segment>>
    ELSE IF sorted[Len(sorted)].start_time <= segment.start_time
         THEN Append(sorted, segment)
         ELSE Append(InsertByStartTime(SubSeq(sorted, 1, Len(sorted) - 1), segment),
                     sorted[Len(sorted)])

RECURSIVE SortByStartTime(_)
SortByStartTime(segs) ==
    IF segs = <<>> THEN <<>>
    ELSE InsertByStartTime(SortByStartTime(SubSeq(segs, 1, Len(segs) - 1)),
                           segs[Len(segs)])

\* act_hour_walk without the "last partial hour" branch
RECURSIVE act_hour_walk_full(_, _, _)
act_hour_walk_full(hourly, current_time, end_time_seg) ==
    IF current_time < end_time_seg
    THEN LET current_hour == HourOf(current_time)
             next_hour == NextHour(current_time)
             hour_duration == next_hour - current_time
         IN  act_hour_walk_full([hourly EXCEPT ![current_hour] = @ + hour_duration],
                                next_hour, end_time_seg)
    ELSE hourly

\* the while loop of the hour walk
RECURSIVE act_hour_walk(_, _, _)
act_hour_walk(hourly, current_time, end_time_seg) ==
    IF current_time < end_time_seg
    THEN LET current_hour == HourOf(current_time)
             next_hour == NextHour(current_time)
             hour_duration == IF next_hour > end_time_seg
                              THEN end_time_seg - current_time
                              ELSE next_hour - current_time
         IN  act_hour_walk([hourly EXCEPT ![current_hour] = @ + hour_duration],
                           next_hour, end_time_seg)
    ELSE hourly

\* act_hourly crediting the whole segment to the hour it starts in
act_hourly_unsplit(hourly, segment) ==
    [hourly EXCEPT ![HourOf(segment.start_time)] = @ + segment.duration_seconds]

\* "track hourly activity"
act_hourly(hourly, segment) ==
    LET start_hour == HourOf(segment.start_time)
        end_hour == HourOf(segment.end_time)
    IN  IF start_hour = end_hour
        THEN [hourly EXCEPT ![start_hour] = @ + segment.duration_seconds]
        ELSE act_hour_walk(hourly, segment.start_time, segment.end_time)

\* act_day_walk crediting a whole day to every date it leaves
RECURSIVE act_day_walk_whole(_, _, _, _)
act_day_walk_whole(daily, current_date, current_time, end_date) ==
    IF current_date < end_date
    THEN LET next_day == NextDay(current_time)
             credited == [daily EXCEPT ![IsoFormat(current_date)] = @ + SecondsPerDay]
         IN  act_day_walk_whole(SetDefault(credited, IsoFormat(DateOf(next_day))),
                                DateOf(next_day), next_day, end_date)
    ELSE [daily |-> daily, current_date |-> current_date,
          current_time |-> current_time]

\* the while loop of the day walk; yields the dict and the cursor
RECURSIVE act_day_walk(_, _, _, _)
act_day_walk(daily, current_date, current_time, end_date) ==
    IF current_date < end_date
    THEN LET next_day == NextDay(current_time)
             day_duration == next_day - current_time
             credited == [daily EXCEPT ![IsoFormat(current_date)] = @ + day_duration]
         IN  act_day_walk(SetDefault(credited, IsoFormat(DateOf(next_day))),
                          DateOf(next_day), next_day, end_date)
    ELSE [daily |-> daily, current_date |-> current_date,
          current_time |-> current_time]

\* "track daily activity"
act_daily(daily, segment) ==
    LET start_date == DateOf(segment.start_time)
        end_date == DateOf(segment.end_time)
        date_str == IsoFormat(start_date)
        d0 == SetDefault(daily, date_str)
    IN  IF start_date = end_date
        THEN [d0 EXCEPT ![date_str] = @ + segment.duration_seconds]
        ELSE LET w == act_day_walk(d0, start_date, segment.start_time, end_date)
                 d1 == SetDefault(w.daily, IsoFormat(w.current_date))
                 day_duration == segment.end_time - w.current_time
             IN  [d1 EXCEPT ![IsoFormat(w.current_date)] = @ + day_duration]

\* Period with the duration counted inclusively
Period_inclusive(start, end) ==
    [start |-> start, end |-> end, duration_seconds |-> end - start + 1]

Period(start, end) ==
    [start |-> start, end |-> end, duration_seconds |-> end - start]

\* act_extends with < for <=
act_extends_strict(period_end, segment) ==
    segment.start_time - period_end < gap_threshold

\* the gap test of "track continuous activity periods"
act_extends(period_end, segment) ==
    segment.start_time - period_end <= gap_threshold

\* act_periods without the max: the session end becomes the segment's end
act_periods_no_max(f, segment) ==
    IF f.current_period_start = None
    THEN [f EXCEPT !.current_period_start = segment.start_time,
                   !.current_period_end = segment.end_time]
    ELSE IF act_extends(f.current_period_end, segment)
         THEN [f EXCEPT !.current_period_end = segment.end_time]
         ELSE [f EXCEPT !.active_periods =
                            Append(@, Period(f.current_period_start,
                                             f.current_period_end)),
                        !.current_period_start = segment.start_time,
                        !.current_period_end = segment.end_time]

\* act_periods moving the session start to each segment that extends it
act_periods_restart(f, segment) ==
    IF f.current_period_start = None
    THEN [f EXCEPT !.current_period_start = segment.start_time,
                   !.current_period_end = segment.end_time]
    ELSE IF act_extends(f.current_period_end, segment)
         THEN [f EXCEPT !.current_period_start = segment.start_time,
                        !.current_period_end = Max(@, segment.end_time)]
         ELSE [f EXCEPT !.active_periods =
                            Append(@, Period(f.current_period_start,
                                             f.current_period_end)),
                        !.current_period_start = segment.start_time,
                        !.current_period_end = segment.end_time]

\* "track continuous activity periods"
act_periods(f, segment) ==
    IF f.current_period_start = None
    THEN [f EXCEPT !.current_period_start = segment.start_time,
                   !.current_period_end = segment.end_time]
    ELSE IF act_extends(f.current_period_end, segment)
         THEN [f EXCEPT !.current_period_end = Max(@, segment.end_time)]
         ELSE [f EXCEPT !.active_periods =
                            Append(@, Period(f.current_period_start,
                                             f.current_period_end)),
                        !.current_period_start = segment.start_time,
                        !.current_period_end = segment.end_time]

\* act_skips with < for <=
act_skips_negative(segment) == segment.duration_seconds < 0

\* "skip segments with zero or negative duration"
\* act_skips letting every duration but zero through
act_skips_zero(segment) == segment.duration_seconds = 0

act_skips(segment) == segment.duration_seconds <= 0

\* one iteration of "for segment in sorted_segments"
act_body(f, segment) ==
    IF act_skips(segment) THEN f
    ELSE act_periods([f EXCEPT
             !.hourly_activity = act_hourly(@, segment),
             !.daily_activity = act_daily(@, segment)], segment)

\* the locals when the loop is entered
act_enter(segments, start_time, end_time) ==
    [start_time |-> start_time, end_time |-> end_time,
     sorted_segments |-> SortByStartTime(segments), i |-> 1,
     hourly_activity |-> ZeroHours, daily_activity |-> EmptyDict,
     active_periods |-> <<>>,
     current_period_start |-> None, current_period_end |-> None]

\* the code after the loop: the report that is returned
act_report(f) ==
    LET active_periods ==
            IF f.current_period_start # None
            THEN Append(f.active_periods,
                        Period(f.current_period_start, f.current_period_end))
            ELSE f.active_periods
        dates == SortedKeys(DOMAIN f.daily_activity)
        total_active_seconds ==
            SumSeq([k \in 1..Len(active_periods) |->
                        active_periods[k].duration_seconds])
        session_count == Len(active_periods)
    IN  [hourly_activity |->
            [k \in 1..HoursPerDay |->
                [hour |-> k - 1, seconds |-> f.hourly_activity[k - 1],
                 hours |-> Round2(f.hourly_activity[k - 1], SecondsPerHour)]],
         daily_activity |->
            [k \in 1..Len(dates) |->
                [date |-> dates[k], seconds |-> f.daily_activity[dates[k]],
                 hours |-> Round2(f.daily_activity[dates[k]], SecondsPerHour)]],
         active_periods |-> active_periods,
         total_active_seconds |-> total_active_seconds,
         total_active_hours |-> Round2(total_active_seconds, SecondsPerHour),
         avg_session_seconds |->
            IF session_count > 0
            THEN Round2(total_active_seconds, session_count) ELSE 0,
         avg_session_minutes |->
            IF session_count > 0
            THEN Round2(total_active_seconds, session_count * 60) ELSE 0,
         session_count |-> session_count,
         time_range |-> [start |-> f.start_time, end |-> f.end_time]]

\* entry of get_active_hours: resolve the window and fetch the segments
CallActiveHours ==
    /\ pc = "idle"
    /\ IF IsAbsolute(args)
       THEN /\ act' = act_enter(get_segments(rows, args.start_time, args.end_time),
                                args.start_time, args.end_time)
            /\ UNCHANGED clock
       ELSE \E now \in clock..(clock + MaxDrift) :
            /\ ReadNow(now)
            /\ act' = act_enter(get_segments(rows, now - Delta(args), now),
                                now - Delta(args), now)
    /\ pc' = "get_active_hours"
    /\ result' = NoResult
    /\ UNCHANGED <<rows, args, calls, app, meet>>

ActiveHoursLoop ==
    /\ pc = "get_active_hours"
    /\ act.i <= Len(act.sorted_segments)
    /\ act' = [act_body(act, act.sorted_segments[act.i]) EXCEPT !.i = act.i + 1]
    /\ UNCHANGED <<rows, args, calls, clock, pc, app, meet, result>>

ActiveHoursReturn ==
    /\ pc = "get_active_hours"
    /\ act.i > Len(act.sorted_segments)
    /\ result' = [fn |-> "get_active_hours", report |-> act_report(act)]
    /\ pc' = "idle"
    /\ act' = NoFrame
    /\ UNCHANGED <<rows, args, calls, clock, app, meet>>

----------------------------------------------------------------------------
(* get_app_usage *)

\* position of key k in an insertion-ordered dict, 0 when absent
KeyIndex(d, k) ==
    IF \E j \in 1..Len(d) : d[j].key = k
    THEN CHOOSE j \in 1..Len(d) : d[j].key = k
    ELSE 0

\* if k not in d: d[k] = 0; then d[k] += amount
AddTo(d, k, amount) ==
    LET d0 == IF KeyIndex(d, k) = 0 THEN Append(d, [key |-> k, value |-> 0])
              ELSE d
    IN  [d0 EXCEPT ![KeyIndex(d0, k)].value = @ + amount]

\* the truth value of a text column: None and '' are false
Truthy(text) == text # NULL /\ text # ""

\* InsertDescending placing a key before the keys equal to it
RECURSIVE InsertDescending_unstable(_, _, _)
InsertDescending_unstable(order, idx, keys) ==
    IF order = <<>> THEN <<idx>>
    ELSE IF keys[order[Len(order)]] > keys[idx]
         THEN Append(order, idx)
         ELSE Append(InsertDescending_unstable(SubSeq(order, 1, Len(order) - 1),
                                               idx, keys),
                     order[Len(order)])

\* sorted(..., reverse=True): the positions of keys in descending order of
\* key, equal keys keeping their order
RECURSIVE InsertDescending(_, _, _)
InsertDescending(order, idx, keys) ==
    IF order = <<>> THEN <<idx>>
    ELSE IF keys[order[Len(order)]] >= keys[idx]
         THEN Append(order, idx)
         ELSE Append(InsertDescending(SubSeq(order, 1, Len(order) - 1), idx, keys),
                     order[Len(order)])

RECURSIVE DescendingUpTo(_, _)
DescendingUpTo(keys, n) ==
    IF n = 0 THEN <<>>
    ELSE InsertDescending(DescendingUpTo(keys, n - 1), n, keys)

\* the items left in the order in which they were inserted
SortedDescending_unsorted(items, keys) == items

SortedDescending(items, keys) ==
    LET order == DescendingUpTo(keys, Len(keys))
    IN  [k \in 1..Len(items) |-> items[order[k]]]

\* s[:n]
Take(s, n) == SubSeq(s, 1, IF Len(s) < n THEN Len(s) ELSE n)

\* "skip segments with zero or negative duration"
app_skips(segment) == segment.duration_seconds <= 0

\* app_count counting a window each time it is seen
app_count_every_window(usage, segment) ==
    LET appid == segment.application
        window == segment.window
        duration == segment.duration_seconds
        u0 == IF KeyIndex(usage, appid) = 0
              THEN Append(usage, [key |-> appid, total_seconds |-> 0,
                                  window_count |-> 0, windows |-> <<>>])
              ELSE usage
        a == KeyIndex(u0, appid)
        u1 == [u0 EXCEPT ![a].total_seconds = @ + duration]
    IN  IF Truthy(window)
        THEN [u1 EXCEPT ![a].window_count = @ + 1,
                        ![a].windows = AddTo(@, window, duration)]
        ELSE u1

\* "app usage" and "window usage" of the loop body
app_count(usage, segment) ==
    LET appid == segment.application
        window == segment.window
        duration == segment.duration_seconds
        u0 == IF KeyIndex(usage, appid) = 0
              THEN Append(usage, [key |-> appid, total_seconds |-> 0,
                                  window_count |-> 0, windows |-> <<>>])
              ELSE usage
        a == KeyIndex(u0, appid)
        u1 == [u0 EXCEPT ![a].total_seconds = @ + duration]
    IN  IF Truthy(window)
        THEN [u1 EXCEPT ![a].window_count =
                            IF KeyIndex(u1[a].windows, window) = 0
                            THEN @ + 1 ELSE @,
                        ![a].windows = AddTo(@, window, duration)]
        ELSE u1

\* app_hour_walk without the advance of the hour counter
RECURSIVE app_hour_walk_stuck(_, _, _, _)
app_hour_walk_stuck(hourly, current_hour, current_time, end_time) ==
    IF current_time < end_time
    THEN LET next_hour == NextHour(current_time)
             hour_duration == IF next_hour > end_time
                              THEN end_time - current_time
                              ELSE next_hour - current_time
         IN  app_hour_walk_stuck([hourly EXCEPT ![current_hour] = @ + hour_duration],
                                 current_hour, next_hour, end_time)
    ELSE hourly

\* the while loop of the hour walk, which advances an hour counter
RECURSIVE app_hour_walk(_, _, _, _)
app_hour_walk(hourly, current_hour, current_time, end_time) ==
    IF current_time < end_time
    THEN LET next_hour == NextHour(current_time)
             hour_duration == IF next_hour > end_time
                              THEN end_time - current_time
                              ELSE next_hour - current_time
         IN  app_hour_walk([hourly EXCEPT ![current_hour] = @ + hour_duration],
                           (current_hour + 1) % HoursPerDay, next_hour, end_time)
    ELSE hourly

\* "hourly activity - distribute duration across hours if spanning multiple"
app_hourly(hourly, segment) ==
    LET start_hour == HourOf(segment.start_time)
        end_hour == HourOf(segment.end_time)
    IN  IF start_hour = end_hour
        THEN [hourly EXCEPT ![start_hour] = @ + segment.duration_seconds]
        ELSE app_hour_walk(hourly, start_hour, segment.start_time,
                           segment.end_time)

\* the value of the local end_time after the hourly part of the body: the
\* walk assigns the segment's end to it
app_end_time(end_time, segment) ==
    IF HourOf(segment.start_time) = HourOf(segment.end_time)
    THEN end_time
    ELSE segment.end_time

\* one iteration of "for segment in segments"
app_body(f, segment) ==
    IF app_skips(segment) THEN f
    ELSE [f EXCEPT
            !.app_usage = app_count(@, segment),
            !.window_usage = IF Truthy(segment.window)
                             THEN AddTo(@, segment.window, segment.duration_seconds)
                             ELSE @,
            !.browser_usage = IF Truthy(segment.browser_url)
                              THEN AddTo(@, segment.browser_url,
                                         segment.duration_seconds)
                              ELSE @,
            !.hourly_activity = app_hourly(@, segment),
            !.end_time = app_end_time(@, segment)]

\* the locals when the loop is entered
app_enter(segments, start_time, end_time) ==
    [start_time |-> start_time, end_time |-> end_time,
     segments |-> segments, i |-> 1,
     app_usage |-> <<>>, browser_usage |-> <<>>, window_usage |-> <<>>,
     hourly_activity |-> ZeroHours]

\* the divisor with a sentinel of one hour in place of one second
app_total_duration_hour(usage) ==
    IF usage # <<>>
    THEN SumSeq([k \in 1..Len(usage) |-> usage[k].total_seconds])
    ELSE SecondsPerHour

\* the divisor taken over the displayed apps only
app_total_duration_shown(usage) ==
    IF usage # <<>>
    THEN SumSeq([k \in 1..Len(Take(usage, TopApps)) |-> usage[k].total_seconds])
    ELSE 1

\* sum(data['total_seconds'] for _, data in sorted_apps) if sorted_apps else 1
app_total_duration(usage) ==
    IF usage # <<>>
    THEN SumSeq([k \in 1..Len(usage) |-> usage[k].total_seconds])
    ELSE 1

\* the top_windows of one app
app_top_windows(data) ==
    LET sorted_windows ==
            SortedDescending(data.windows,
                [k \in 1..Len(data.windows) |-> data.windows[k].value])
        shown == Take(sorted_windows, TopWindows)
    IN  [k \in 1..Len(shown) |->
            [name |-> shown[k].key,
             hours |-> Round2(shown[k].value, SecondsPerHour),
             percentage |-> IF data.total_seconds > 0
                            THEN Round2(100 * shown[k].value, data.total_seconds)
                            ELSE 0]]

\* the code after the loop: the report that is returned; end_now is the
\* reading of now() taken when the local end_time is None
app_report(f, end_now) ==
    LET sorted_apps ==
            SortedDescending(f.app_usage,
                [k \in 1..Len(f.app_usage) |-> f.app_usage[k].total_seconds])
        total_duration == app_total_duration(sorted_apps)
        shown_apps == Take(sorted_apps, TopApps)
        sorted_urls ==
            SortedDescending(f.browser_usage,
                [k \in 1..Len(f.browser_usage) |-> f.browser_usage[k].value])
        shown_urls == Take(sorted_urls, TopApps)
    IN  [top_apps |->
            [k \in 1..Len(shown_apps) |->
                [name |-> shown_apps[k].key,
                 hours |-> Round2(shown_apps[k].total_seconds, SecondsPerHour),
                 percentage |-> Round2(100 * shown_apps[k].total_seconds,
                                       total_duration),
                 window_count |-> shown_apps[k].window_count,
                 top_windows |-> app_top_windows(shown_apps[k])]],
         top_urls |->
            [k \in 1..Len(shown_urls) |->
                [url |-> shown_urls[k].key,
                 hours |-> Round2(shown_urls[k].value, SecondsPerHour),
                 percentage |-> Round2(100 * shown_urls[k].value, total_duration)]],
         hourly_activity |->
            [k \in 1..HoursPerDay |->
                [hour |-> k - 1,
                 hours |-> Round2(f.hourly_activity[k - 1], SecondsPerHour),
                 percentage |-> IF total_duration > 0
                                THEN Round2(100 * f.hourly_activity[k - 1],
                                            total_duration)
                                ELSE 0]],
         total_apps |-> Len(f.app_usage),
         total_windows |-> Len(f.window_usage),
         total_urls |-> Len(f.browser_usage),
         total_hours |-> Round2(total_duration, SecondsPerHour),
         time_range |-> [start |-> f.start_time,
                         end |-> IF f.end_time # None THEN f.end_time
                                 ELSE end_now]]

\* entry of get_app_usage: resolve the window and fetch the segments; in the
\* relative branch the parameter end_time is left as passed
CallAppUsage ==
    /\ pc = "idle"
    /\ IF IsAbsolute(args)
       THEN /\ app' = app_enter(get_segments(rows, args.start_time, args.end_time),
                                args.start_time, args.end_time)
            /\ UNCHANGED clock
       ELSE \E now \in clock..(clock + MaxDrift) :
            /\ ReadNow(now)
            /\ app' = app_enter(get_segments(rows, now - Delta(args), now),
                                now - Delta(args), args.end_time)
    /\ pc' = "get_app_usage"
    /\ result' = NoResult
    /\ UNCHANGED <<rows, args, calls, act, meet>>

AppUsageLoop ==
    /\ pc = "get_app_usage"
    /\ app.i <= Len(app.segments)
    /\ app' = [app_body(app, app.segments[app.i]) EXCEPT !.i = app.i + 1]
    /\ UNCHANGED <<rows, args, calls, clock, pc, act, meet, result>>

AppUsageReturn ==
    /\ pc = "get_app_usage"
    /\ app.i > Len(app.segments)
    /\ IF app.end_time # None
       THEN /\ result' = [fn |-> "get_app_usage", report |-> app_report(app, None)]
            /\ UNCHANGED clock
       ELSE \E now \in clock..(clock + MaxDrift) :
            /\ ReadNow(now)
            /\ result' = [fn |-> "get_app_usage", report |-> app_report(app, now)]
    /\ pc' = "idle"
    /\ app' = NoFrame
    /\ UNCHANGED <<rows, args, calls, act, meet>>

----------------------------------------------------------------------------
(* get_meetings *)

\* event['calendar'] or 'Unknown'
meet_calendar(event) ==
    IF Truthy(event.calendar) THEN event.calendar ELSE "Unknown"

\* "skip events with zero or negative duration"
meet_skips(event) == event.duration_seconds <= 0

\* "track calendar stats"
meet_count(stats, event) ==
    LET calendar == meet_calendar(event)
        s0 == IF KeyIndex(stats, calendar) = 0
              THEN Append(stats, [key |-> calendar, event_count |-> 0,
                                  total_seconds |-> 0, events |-> <<>>])
              ELSE stats
        c == KeyIndex(s0, calendar)
    IN  [s0 EXCEPT ![c].event_count = @ + 1,
                   ![c].total_seconds = @ + event.duration_seconds,
                   ![c].events = Append(@, event.id)]

\* the while loop of the day walk; yields the dict and the cursor
RECURSIVE meet_day_walk(_, _, _, _)
meet_day_walk(daily, current_date, current_time, end_date) ==
    IF current_date < end_date
    THEN LET next_day == NextDay(current_time)
             day_duration == next_day - current_time
             credited == [daily EXCEPT ![IsoFormat(current_date)] = @ + day_duration]
         IN  meet_day_walk(SetDefault(credited, IsoFormat(DateOf(next_day))),
                           DateOf(next_day), next_day, end_date)
    ELSE [daily |-> daily, current_date |-> current_date,
          current_time |-> current_time]

\* meet_daily without "add remaining time on the last day"
meet_daily_no_rest(daily, event) ==
    LET start_date == DateOf(event.start_time)
        end_date == DateOf(event.end_time)
        date_str == IsoFormat(start_date)
        d0 == SetDefault(daily, date_str)
    IN  IF start_date = end_date
        THEN [d0 EXCEPT ![date_str] = @ + event.duration_seconds]
        ELSE meet_day_walk(d0, start_date, event.start_time, end_date).daily

\* "track daily meeting hours"
meet_daily(daily, event) ==
    LET start_date == DateOf(event.start_time)
        end_date == DateOf(event.end_time)
        date_str == IsoFormat(start_date)
        d0 == SetDefault(daily, date_str)
    IN  IF start_date = end_date
        THEN [d0 EXCEPT ![date_str] = @ + event.duration_seconds]
        ELSE LET w == meet_day_walk(d0, start_date, event.start_time, end_date)
                 d1 == SetDefault(w.daily, IsoFormat(w.current_date))
                 day_duration == event.end_time - w.current_time
             IN  [d1 EXCEPT ![IsoFormat(w.current_date)] = @ + day_duration]

\* the while loop of the hour walk
RECURSIVE meet_hour_walk(_, _, _)
meet_hour_walk(hourly, current_time, end_time_event) ==
    IF current_time < end_time_event
    THEN LET current_hour == HourOf(current_time)
             next_hour == NextHour(current_time)
             hour_duration == IF next_hour > end_time_event
                              THEN end_time_event - current_time
                              ELSE next_hour - current_time
         IN  meet_hour_walk([hourly EXCEPT ![current_hour] = @ + hour_duration],
                            next_hour, end_time_event)
    ELSE hourly

\* meet_hourly crediting at most one hour to an event within one hour of day
meet_hourly_capped(hourly, event) ==
    LET start_hour == HourOf(event.start_time)
        end_hour == HourOf(event.end_time)
    IN  IF start_hour = end_hour
        THEN [hourly EXCEPT ![start_hour] =
                 @ + (IF event.duration_seconds > SecondsPerHour
                      THEN SecondsPerHour ELSE event.duration_seconds)]
        ELSE meet_hour_walk(hourly, event.start_time, event.end_time)

\* "track hourly distribution"
meet_hourly(hourly, event) ==
    LET start_hour == HourOf(event.start_time)
        end_hour == HourOf(event.end_time)
    IN  IF start_hour = end_hour
        THEN [hourly EXCEPT ![start_hour] = @ + event.duration_seconds]
        ELSE meet_hour_walk(hourly, event.start_time, event.end_time)

\* one iteration of "for event in events"
meet_body(f, event) ==
    IF meet_skips(event) THEN f
    ELSE [f EXCEPT
            !.total_duration = @ + event.duration_seconds,
            !.calendar_stats = meet_count(@, event),
            !.daily_meeting_hours = meet_daily(@, event),
            !.hourly_distribution = meet_hourly(@, event)]

\* the locals when the loop is entered
meet_enter(events, start_time, end_time) ==
    [start_time |-> start_time, end_time |-> end_time,
     events |-> events, i |-> 1,
     calendar_stats |-> <<>>, daily_meeting_hours |-> EmptyDict,
     hourly_distribution |-> ZeroHours, total_duration |-> 0]

\* len(events) as used for the average and for total_events
meet_event_count(f) == Len(f.events)

\* the code after the loop: the report that is returned
meet_report(f) ==
    LET calendar_stats_list ==
            [k \in 1..Len(f.calendar_stats) |->
                [calendar |-> f.calendar_stats[k].key,
                 event_count |-> f.calendar_stats[k].event_count,
                 hours |-> Round2(f.calendar_stats[k].total_seconds,
                                  SecondsPerHour),
                 percentage |-> IF f.total_duration > 0
                                THEN Round2(100 * f.calendar_stats[k].total_seconds,
                                            f.total_duration)
                                ELSE 0]]
        dates == SortedKeys(DOMAIN f.daily_meeting_hours)
        n == meet_event_count(f)
    IN  [events |-> f.events,
         calendar_stats |->
            SortedDescending(calendar_stats_list,
                [k \in 1..Len(calendar_stats_list) |->
                    calendar_stats_list[k].hours]),
         daily_meeting_hours |->
            [k \in 1..Len(dates) |->
                [date |-> dates[k], seconds |-> f.daily_meeting_hours[dates[k]],
                 hours |-> Round2(f.daily_meeting_hours[dates[k]],
                                  SecondsPerHour)]],
         hourly_distribution |->
            [k \in 1..HoursPerDay |->
                [hour |-> k - 1, seconds |-> f.hourly_distribution[k - 1],
                 hours |-> Round2(f.hourly_distribution[k - 1], SecondsPerHour)]],
         total_events |-> n,
         total_seconds |-> f.total_duration,
         total_hours |-> Round2(f.total_duration, SecondsPerHour),
         avg_meeting_seconds |->
            IF n > 0 THEN Round2(f.total_duration, n) ELSE 0,
         avg_meeting_minutes |->
            IF n > 0 THEN Round2(f.total_duration, n * 60) ELSE 0,
         time_range |-> [start |-> f.start_time, end |-> f.end_time]]

\* entry of get_meetings: resolve the window and fetch the events
CallMeetings ==
    /\ pc = "idle"
    /\ IF IsAbsolute(args)
       THEN /\ meet' = meet_enter(get_events(rows, args.start_time, args.end_time),
                                  args.start_time, args.end_time)
            /\ UNCHANGED clock
       ELSE \E now \in clock..(clock + MaxDrift) :
            /\ ReadNow(now)
            /\ meet' = meet_enter(get_events(rows, now - Delta(args), now),
                                  now - Delta(args), now)
    /\ pc' = "get_meetings"
    /\ result' = NoResult
    /\ UNCHANGED <<rows, args, calls, app, act>>

MeetingsLoop ==
    /\ pc = "get_meetings"
    /\ meet.i <= Len(meet.events)
    /\ meet' = [meet_body(meet, meet.events[meet.i]) EXCEPT !.i = meet.i + 1]
    /\ UNCHANGED <<rows, args, calls, clock, pc, app, act, result>>

MeetingsReturn ==
    /\ pc = "get_meetings"
    /\ meet.i > Len(meet.events)
    /\ result' = [fn |-> "get_meetings", report |-> meet_report(meet)]
    /\ pc' = "idle"
    /\ meet' = NoFrame
    /\ UNCHANGED <<rows, args, calls, clock, app, act>>

----------------------------------------------------------------------------
(* The tables and calls that are explored *)

Row(id, startDate, endDate, bundleID, windowName, browserUrl, calendarName) ==
    [id |-> id, startDate |-> startDate * MsPerSecond,
     endDate |-> endDate * MsPerSecond, bundleID |-> bundleID,
     windowName |-> windowName, browserUrl |-> browserUrl,
     calendarName |-> calendarName]

\* the rows a table is made of, in rowid order
Pool ==
    << Row(1, T(0, 9, 31, 1), T(0, 9, 50, 0), "B", "w2", "u1", "Home"),
       Row(2, T(0, 9, 0, 0), T(0, 9, 30, 0), "A", "w1", NULL, "Work"),
       Row(3, T(0, 9, 31, 0), T(0, 9, 31, 0), "Z", "wz", "uz", "Zero"),
       Row(4, T(0, 9, 31, 0), T(0, 9, 40, 0), "A", "w3", "u1", NULL),
       Row(5, T(0, 9, 10, 0), T(0, 9, 20, 0), NULL, "", "", "Work"),
       Row(6, T(0, 12, 0, 0), T(0, 13, 0, 0), "B", NULL, "u2", ""),
       Row(7, T(0, 13, 30, 0), T(0, 14, 45, 0), "A", "w1", "u2", "Home"),
       Row(8, T(0, 23, 30, 0), T(1, 0, 30, 0), "C", "w2", NULL, "Work"),
       Row(9, T(0, 0, 0, 0), T(1, 0, 0, 0), "C", "w4", NULL, "Days"),
       Row(10, T(0, 22, 15, 0), T(2, 1, 5, 0), "B", "w1", "u3", "Days"),
       Row(11, T(0, 10, 0, 0), T(0, 9, 0, 0), "N", "wn", "un", "Neg"),
       Row(12, T(0, 9, 50, 0), T(0, 9, 5, 0), "N", "w1", "u1", "Neg"),
       Row(13, T(0, 13, 59, 0), T(0, 15, 1, 0), "C", "w3", "u3", "Home") >>

\* the tables: at most MaxRows rows of the pool, in rowid order
RECURSIVE RowsOf(_)
RowsOf(ids) ==
    IF ids = {} THEN <<>>
    ELSE LET least == CHOOSE k \in ids : \A o \in ids : k <= o
         IN  <<Pool[least]>> \o RowsOf(ids \ {least})

Tables ==
    { RowsOf(ids) : ids \in { S \in SUBSET (1..Len(Pool)) : Cardinality(S) <= MaxRows } }

\* the smaller tables: one row fewer than Tables
PairTables ==
    { RowsOf(ids) : ids \in { S \in SUBSET (1..Len(Pool)) : Cardinality(S) < MaxRows } }

Call(start_time, end_time, days, hours, minutes, seconds) ==
    [start_time |-> start_time, end_time |-> end_time, days |-> days,
     hours |-> hours, minutes |-> minutes, seconds |-> seconds]

\* the arguments: two absolute windows, no arguments at all, a relative one
Calls ==
    { Call(T(0, 0, 0, 0), T(3, 0, 0, 0), 0, 0, 0, 0),
      Call(T(0, 9, 0, 0), T(0, 10, 0, 0), 0, 0, 0, 0),
      Call(None, None, 0, 0, 0, 0),
      Call(None, None, 1, 12, 0, 0) }

Init ==
    /\ rows \in Tables
    /\ args \in Calls
    /\ clock = T(1, 12, 0, 0)
    /\ pc = "idle"
    /\ app = NoFrame
    /\ act = NoFrame
    /\ meet = NoFrame
    /\ result = NoResult
    /\ calls = <<>>

Next ==
    \/ CallAppUsage
    \/ AppUsageLoop
    \/ AppUsageReturn
    \/ CallActiveHours
    \/ ActiveHoursLoop
    \/ ActiveHoursReturn
    \/ CallMeetings
    \/ MeetingsLoop
    \/ MeetingsReturn

Spec == Init /\ [][Next]_vars

----------------------------------------------------------------------------
(* get_statistics and _get_app_usage_stats, on a segment table whose       *)
(* startDate and endDate are texts "YYYY-MM-DDTHH:MM:SS".  A text is the   *)
(* tuple of its six zero-padded fields; texts compare field by field, as   *)
(* the strings do.  (On a table of integer timestamps the query below,     *)
(* whose bounds are texts, selects no row.)                                *)

\* now.strftime("%Y-%m-%dT%H:%M:%S"), for December 1969 and January 1970
strftime(t) ==
    LET d == DateOf(t)
    IN  IF d >= 0
        THEN <<1970, 1, 1 + d, HourOf(t), (t \div 60) % 60, t % 60>>
        ELSE <<1969, 12, 32 + d, HourOf(t), (t \div 60) % 60, t % 60>>

\* datetime.datetime.strptime(text, "%Y-%m-%dT%H:%M:%S")
strptime(text) ==
    T(IF text[1] = 1970 THEN text[3] - 1 ELSE text[3] - 32,
      text[4], text[5], text[6])

\* a <= b on texts
RECURSIVE TextLessEqFrom(_, _, _)
TextLessEqFrom(a, b, k) ==
    IF k > Len(a) THEN TRUE
    ELSE IF a[k] # b[k] THEN a[k] < b[k]
    ELSE TextLessEqFrom(a, b, k + 1)

TextLessEq(a, b) == TextLessEqFrom(a, b, 1)

\* the WHERE clause of _get_app_usage_stats
stats_in_window(row, week_ago_str, now_str) ==
    \/ TextLessEq(week_ago_str, row.startDate) /\ TextLessEq(row.startDate, now_str)
    \/ TextLessEq(week_ago_str, row.endDate) /\ TextLessEq(row.endDate, now_str)
    \/ TextLessEq(row.startDate, week_ago_str) /\ TextLessEq(now_str, row.endDate)

\* ORDER BY startDate
RECURSIVE stats_insert(_, _)
stats_insert(sorted, row) ==
    IF sorted = <<>> THEN <<row>>
    ELSE IF TextLessEq(sorted[Len(sorted)].startDate, row.startDate)
         THEN Append(sorted, row)
         ELSE Append(stats_insert(SubSeq(sorted, 1, Len(sorted) - 1), row),
                     sorted[Len(sorted)])

RECURSIVE stats_order(_)
stats_order(table) ==
    IF table = <<>> THEN <<>>
    ELSE stats_insert(stats_order(SubSeq(table, 1, Len(table) - 1)),
                      table[Len(table)])

stats_rows(table, week_ago, now) ==
    stats_order(SelectSeq(table,
        LAMBDA row : stats_in_window(row, strftime(week_ago), strftime(now))))

\* app = row[3], "Unknown" when it is None
stats_app(row) == IF row.bundleID = NULL THEN "Unknown" ELSE row.bundleID

\* "Skip internal Rewind components"
stats_skips(row) == stats_app(row) = "ai.rewind.audiorecorder"

\* "Calculate app usage time": the loop over the rows, from row i on
RECURSIVE stats_loop(_, _, _)
stats_loop(app_usage, fetched, i) ==
    IF i > Len(fetched) THEN app_usage
    ELSE IF stats_skips(fetched[i]) THEN stats_loop(app_usage, fetched, i + 1)
    ELSE LET duration == strptime(fetched[i].endDate)
                             - strptime(fetched[i].startDate)
         IN  stats_loop(AddTo(app_usage, stats_app(fetched[i]), duration),
                        fetched, i + 1)

\* sum(app_usage.values()) if app_usage else 1
stats_total_duration(app_usage) ==
    IF app_usage # <<>>
    THEN SumSeq([k \in 1..Len(app_usage) |-> app_usage[k].value])
    ELSE 1

\* round(num / den, 2) for a divisor of either sign
Round2Signed(num, den) ==
    IF den < 0 THEN Round2(-num, -den) ELSE Round2(num, den)

\* the division duration / total_duration raises ZeroDivisionError
stats_raises(app_usage) ==
    app_usage # <<>> /\ stats_total_duration(app_usage) = 0

\* the dict _get_app_usage_stats returns when nothing is raised
stats_report(table, app_usage, is_relative) ==
    LET sorted_apps ==
            SortedDescending(app_usage,
                [k \in 1..Len(app_usage) |-> app_usage[k].value])
        shown == Take(sorted_apps, TopApps)
        total_duration == stats_total_duration(app_usage)
    IN  [top_apps |->
            [k \in 1..Len(shown) |->
                [app |-> shown[k].key,
                 hours |-> Round2(shown[k].value, SecondsPerHour),
                 percentage |-> Round2Signed(100 * shown[k].value,
                                             total_duration)]],
         total_apps |-> Len(app_usage),
         total_segments |-> IF is_relative THEN 0 ELSE Len(table),
         total_hours |->
            Round2(SumSeq([k \in 1..Len(app_usage) |-> app_usage[k].value]),
                   SecondsPerHour)]

\* RewindDB._get_app_usage_stats: the report, or the exception it raises
get_app_usage_stats(table, now, week_ago, is_relative) ==
    LET app_usage == stats_loop(<<>>, stats_rows(table, week_ago, now), 1)
    IN  IF stats_raises(app_usage)
        THEN [fn |-> "get_statistics", raised |-> "ZeroDivisionError"]
        ELSE [fn |-> "get_statistics", raised |-> "nothing",
              report |-> [app_usage |->
                              stats_report(table, app_usage, is_relative)]]

\* RewindDB.get_statistics, as far as the application usage goes
CallStatistics ==
    /\ pc = "idle"
    /\ \E now \in clock..(clock + MaxDrift) :
        /\ ReadNow(now)
        /\ LET is_relative == Delta(args) # 0
               week_ago == IF is_relative THEN now - Delta(args)
                           ELSE now - TimeDelta(7, 0, 0, 0)
           IN  result' = get_app_usage_stats(rows, now, week_ago, is_relative)
    /\ UNCHANGED <<rows, args, calls, pc, app, act, meet>>

StatsRow(id, startDate, endDate, bundleID, windowName, browserUrl) ==
    [id |-> id, startDate |-> strftime(startDate), endDate |-> strftime(endDate),
     bundleID |-> bundleID, windowName |-> windowName, browserUrl |-> browserUrl]

\* the rows a text table is made of, in rowid order
StatsPool ==
    << StatsRow(1, T(0, 9, 0, 0), T(0, 9, 30, 0), "A", "w1", NULL),
       StatsRow(2, T(0, 9, 31, 0), T(0, 9, 31, 0), "Z", "wz", "uz"),
       StatsRow(3, T(0, 9, 10, 0), T(0, 9, 20, 0), NULL, "", ""),
       StatsRow(4, T(0, 10, 0, 0), T(0, 9, 0, 0), "N", "wn", "un"),
       StatsRow(5, T(0, 12, 0, 0), T(0, 13, 0, 0), "B", NULL, "u2"),
       StatsRow(6, T(0, 9, 40, 0), T(0, 9, 50, 0), "ai.rewind.audiorecorder",
                "w1", NULL),
       StatsRow(7, T(0, 9, 50, 0), T(0, 9, 5, 0), "A", "w1", "u1"),
       StatsRow(8, T(0, 23, 30, 0), T(1, 0, 30, 0), "B", "w2", NULL) >>

RECURSIVE StatsRowsOf(_)
StatsRowsOf(ids) ==
    IF ids = {} THEN <<>>
    ELSE LET least == CHOOSE k \in ids : \A o \in ids : k <= o
         IN  <<StatsPool[least]>> \o StatsRowsOf(ids \ {least})

StatsTables ==
    { StatsRowsOf(ids) :
        ids \in { S \in SUBSET (1..Len(StatsPool)) : Cardinality(S) <= MaxRows } }

\* get_statistics() and get_statistics(days=1, hours=12), and a look back
\* that ends before the rows begin
StatsCalls ==
    { Call(None, None, 0, 0, 0, 0),
      Call(None, None, 1, 12, 0, 0),
      Call(None, None, 0, 1, 0, 0) }

StatsInit ==
    /\ rows \in StatsTables
    /\ args \in StatsCalls
    /\ clock = T(1, 12, 0, 0)
    /\ pc = "idle"
    /\ app = NoFrame
    /\ act = NoFrame
    /\ meet = NoFrame
    /\ result = NoResult
    /\ calls = <<>>

StatsNext == CallStatistics

StatsSpec == StatsInit /\ [][StatsNext]_vars

----------------------------------------------------------------------------
(* Wide tables: MaxWide segments, each one second or 2000 seconds long,    *)
(* stored out of start order; either every segment has an application and  *)
(* a url of its own, or all belong to one application and each has a       *)
(* window of its own, or all belong to one application and share three     *)
(* windows.  Only get_app_usage is run on them.                            *)

WideStart(k) == T(0, 0, (5 * k) % (MaxWide + 1), 0)

WideRow(shape, k, long) ==
    LET startDate == WideStart(k)
        endDate == startDate + (IF long THEN 2000 ELSE 1)
    IN  IF shape = "apps"
        THEN Row(k, startDate, endDate, ToString(k), "w", ToString(k), NULL)
        ELSE IF shape = "windows"
        THEN Row(k, startDate, endDate, "A", ToString(k), "u", NULL)
        ELSE Row(k, startDate, endDate, "A", ToString(k % 3), "u", NULL)

WideTables ==
    { [k \in 1..MaxWide |-> WideRow(shape, k, k \in long)] :
        shape \in {"apps", "windows", "shares"}, long \in SUBSET (1..MaxWide) }

WideInit ==
    /\ rows \in WideTables
    /\ args = Call(T(0, 0, 0, 0), T(3, 0, 0, 0), 0, 0, 0, 0)
    /\ clock = T(1, 12, 0, 0)
    /\ pc = "idle"
    /\ app = NoFrame
    /\ act = NoFrame
    /\ meet = NoFrame
    /\ result = NoResult
    /\ calls = <<>>

WideNext ==
    \/ CallAppUsage
    \/ AppUsageLoop
    \/ AppUsageReturn

WideSpec == WideInit /\ [][WideNext]_vars

----------------------------------------------------------------------------
(* display_app_usage of activity_cli.py: what it prints for a report of    *)
(* get_app_usage.  Hours are in hundredths, the printed percentages in     *)
(* tenths.                                                                 *)

\* "rewind's own app"
Recorder == "ai.rewind.audiorecorder"

\* f"{num / den:.1f}" in tenths, for num >= 0 and den > 0
Round1(num, den) ==
    LET q == (10 * num) \div den
        f == (10 * num) % den
        up == \/ 2 * f > den
              \/ 2 * f = den /\ q % 2 = 1
    IN  q + (IF up THEN 1 ELSE 0)

\* [app for app in top_apps if app['name'] != "ai.rewind.audiorecorder"]
RECURSIVE filter_apps(_)
filter_apps(top_apps) ==
    IF top_apps = <<>> THEN <<>>
    ELSE IF Head(top_apps).name # Recorder
         THEN <<Head(top_apps)>> \o filter_apps(Tail(top_apps))
         ELSE filter_apps(Tail(top_apps))

\* "adjust total apps count (subtract 1 if we filtered out rewind)"
display_total_apps(app_usage, filtered_apps) ==
    IF Len(filtered_apps) < Len(app_usage.top_apps)
    THEN app_usage.total_apps - 1
    ELSE app_usage.total_apps

\* what display_app_usage prints
display_app_usage(app_usage) ==
    LET filtered_apps == filter_apps(app_usage.top_apps)
        filtered_total_hours ==
            SumSeq([k \in 1..Len(filtered_apps) |-> filtered_apps[k].hours])
    IN  [total_apps |-> display_total_apps(app_usage, filtered_apps),
         total_usage_time |-> filtered_total_hours,
         table |->
            [k \in 1..Len(filtered_apps) |->
                [name |-> filtered_apps[k].name,
                 hours |-> filtered_apps[k].hours,
                 percentage |->
                    IF filtered_total_hours > 0
                    THEN Round1(100 * filtered_apps[k].hours, filtered_total_hours)
                    ELSE Round1(filtered_apps[k].percentage, 100),
                 bar |->
                    IF filtered_total_hours > 0
                    THEN (100 * filtered_apps[k].hours)
                             \div (5 * filtered_total_hours)
                    ELSE filtered_apps[k].percentage \div (5 * 100)]]]

\* the report returned last is displayed
DisplayAppUsage ==
    /\ pc = "idle"
    /\ result.fn = "get_app_usage"
    /\ result' = [fn |-> "display_app_usage",
                  printed |-> display_app_usage(result.report)]
    /\ UNCHANGED <<rows, args, calls, clock, pc, app, act, meet>>

\* tables of MaxWide applications used once each, the rec-th of which is the
\* recorder (none when rec = 0)
DisplayRow(k, rec, long) ==
    LET startDate == WideStart(k)
        endDate == startDate + (IF long THEN 2000 ELSE 1)
    IN  Row(k, startDate, endDate,
            IF k = rec THEN Recorder ELSE ToString(k), "w", "u", NULL)

DisplayTables ==
    { [k \in 1..MaxWide |-> DisplayRow(k, rec, k \in long)] :
        rec \in 0..MaxWide, long \in SUBSET (1..2) }

DisplayInit ==
    /\ rows \in DisplayTables
    /\ args = Call(T(0, 0, 0, 0), T(3, 0, 0, 0), 0, 0, 0, 0)
    /\ clock = T(1, 12, 0, 0)
    /\ pc = "idle"
    /\ app = NoFrame
    /\ act = NoFrame
    /\ meet = NoFrame
    /\ result = NoResult
    /\ calls = <<>>

DisplayNext ==
    \/ CallAppUsage
    \/ AppUsageLoop
    \/ AppUsageReturn
    \/ DisplayAppUsage

DisplaySpec == DisplayInit /\ [][DisplayNext]_vars

----------------------------------------------------------------------------
(* Event tables whose calendars have nearly equal totals: every event      *)
(* lasts an hour, an hour and ten seconds, or two hours.                   *)

CalendarRow(k, calendar, extra) ==
    LET startDate == T(0, 2 * k, 0, 0)
    IN  Row(k, startDate, startDate + SecondsPerHour + extra,
            "A", "w", "u", calendar)

CalendarTables ==
    { [k \in 1..MaxRows |-> CalendarRow(k, calendar[k], extra[k])] :
        calendar \in [1..MaxRows -> {"Work", "Home"}],
        extra \in [1..MaxRows -> {0, 10, SecondsPerHour}] }

CalendarInit ==
    /\ rows \in CalendarTables
    /\ args = Call(T(0, 0, 0, 0), T(3, 0, 0, 0), 0, 0, 0, 0)
    /\ clock = T(1, 12, 0, 0)
    /\ pc = "idle"
    /\ app = NoFrame
    /\ act = NoFrame
    /\ meet = NoFrame
    /\ result = NoResult
    /\ calls = <<>>

CalendarNext ==
    \/ CallMeetings
    \/ MeetingsLoop
    \/ MeetingsReturn

CalendarSpec == CalendarInit /\ [][CalendarNext]_vars

----------------------------------------------------------------------------
(* The while loops of the hour walk and of the day walk, one round at a    *)
(* time.  pc names the loop that runs, i counts its rounds, and the locals *)
(* of the loop are held in act (loops of get_active_hours) or in app (the  *)
(* loop of get_app_usage).                                                 *)

Walks == {"hour_walk", "day_walk", "app_hour_walk"}

\* the branch of the builder that leads to the loop is taken
walk_entered(walk, segment) ==
    /\ segment.duration_seconds > 0
    /\ IF walk = "day_walk"
       THEN DateOf(segment.start_time) # DateOf(segment.end_time)
       ELSE HourOf(segment.start_time) # HourOf(segment.end_time)

\* the locals set before the while loop
walk_enter(walk, segment) ==
    IF walk = "hour_walk"
    THEN [i |-> 0, segment |-> segment, hourly_activity |-> ZeroHours,
          current_time |-> segment.start_time,
          end_time_seg |-> segment.end_time]
    ELSE IF walk = "day_walk"
    THEN [i |-> 0, segment |-> segment,
          daily_activity |-> SetDefault(EmptyDict,
                                        IsoFormat(DateOf(segment.start_time))),
          current_date |-> DateOf(segment.start_time),
          current_time |-> segment.start_time,
          end_date |-> DateOf(segment.end_time)]
    ELSE [i |-> 0, segment |-> segment, hourly_activity |-> ZeroHours,
          current_hour |-> HourOf(segment.start_time),
          current_time |-> segment.start_time,
          end_time |-> segment.end_time]

\* the condition of the while loop
walk_continues(walk, f) ==
    IF walk = "hour_walk" THEN f.current_time < f.end_time_seg
    ELSE IF walk = "day_walk" THEN f.current_date < f.end_date
    ELSE f.current_time < f.end_time

\* hour_walk_round moving the cursor by half an hour at most
hour_walk_round_half(f) ==
    LET current_hour == HourOf(f.current_time)
        next_hour == IF NextHour(f.current_time) - f.current_time > 1800
                     THEN f.current_time + 1800
                     ELSE NextHour(f.current_time)
        hour_duration == IF next_hour > f.end_time_seg
                         THEN f.end_time_seg - f.current_time
                         ELSE next_hour - f.current_time
    IN  [f EXCEPT !.hourly_activity[current_hour] = @ + hour_duration,
                  !.current_time = next_hour,
                  !.i = @ + 1]

\* one round of the hour walk of get_active_hours
hour_walk_round(f) ==
    LET current_hour == HourOf(f.current_time)
        next_hour == NextHour(f.current_time)
        hour_duration == IF next_hour > f.end_time_seg
                         THEN f.end_time_seg - f.current_time
                         ELSE next_hour - f.current_time
    IN  [f EXCEPT !.hourly_activity[current_hour] = @ + hour_duration,
                  !.current_time = next_hour,
                  !.i = @ + 1]

\* one round of the day walk of get_active_hours
day_walk_round(f) ==
    LET next_day == NextDay(f.current_time)
        day_duration == next_day - f.current_time
        credited == [f.daily_activity EXCEPT
                        ![IsoFormat(f.current_date)] = @ + day_duration]
    IN  [f EXCEPT !.daily_activity =
                      SetDefault(credited, IsoFormat(DateOf(next_day))),
                  !.current_date = DateOf(next_day),
                  !.current_time = next_day,
                  !.i = @ + 1]

\* one round of the hour walk of get_app_usage
app_hour_walk_round(f) ==
    LET next_hour == NextHour(f.current_time)
        hour_duration == IF next_hour > f.end_time
                         THEN f.end_time - f.current_time
                         ELSE next_hour - f.current_time
    IN  [f EXCEPT !.hourly_activity[f.current_hour] = @ + hour_duration,
                  !.current_hour = (f.current_hour + 1) % HoursPerDay,
                  !.current_time = next_hour,
                  !.i = @ + 1]

walk_round(walk, f) ==
    IF walk = "hour_walk" THEN hour_walk_round(f)
    ELSE IF walk = "day_walk" THEN day_walk_round(f)
    ELSE app_hour_walk_round(f)

\* the locals of the loop that runs
WalkFrame == IF pc = "app_hour_walk" THEN app ELSE act

\* a builder reaches one of its while loops with a fetched segment
WalkEnter ==
    /\ pc = "idle"
    /\ result = NoResult
    /\ \E walk \in Walks :
        LET segments == get_segments(rows, args.start_time, args.end_time)
        IN  \E k \in 1..Len(segments) :
                /\ walk_entered(walk, segments[k])
                /\ pc' = walk
                /\ IF walk = "app_hour_walk"
                   THEN /\ app' = walk_enter(walk, segments[k])
                        /\ act' = act
                   ELSE /\ act' = walk_enter(walk, segments[k])
                        /\ app' = app
    /\ UNCHANGED <<rows, args, calls, clock, meet, result>>

WalkRound ==
    /\ pc \in Walks
    /\ walk_continues(pc, WalkFrame)
    /\ IF pc = "app_hour_walk"
       THEN /\ app' = walk_round(pc, app)
            /\ act' = act
       ELSE /\ act' = walk_round(pc, act)
            /\ app' = app
    /\ UNCHANGED <<rows, args, calls, clock, pc, meet, result>>

WalkExit ==
    /\ pc \in Walks
    /\ ~walk_continues(pc, WalkFrame)
    /\ result' = [fn |-> pc, rounds |-> WalkFrame.i]
    /\ pc' = "idle"
    /\ app' = NoFrame
    /\ act' = NoFrame
    /\ UNCHANGED <<rows, args, calls, clock, meet>>

WalkInit ==
    /\ rows \in PairTables
    /\ args = Call(T(0, 0, 0, 0), T(3, 0, 0, 0), 0, 0, 0, 0)
    /\ clock = T(1, 12, 0, 0)
    /\ pc = "idle"
    /\ app = NoFrame
    /\ act = NoFrame
    /\ meet = NoFrame
    /\ result = NoResult
    /\ calls = <<>>

WalkNext ==
    \/ WalkEnter
    \/ WalkRound
    \/ WalkExit
    \/ Next

\* the interpreter keeps executing the statement it has reached
WalkSpec == WalkInit /\ [][WalkNext]_vars /\ WF_vars(WalkNext)

----------------------------------------------------------------------------
(* The builders as functions of the list they iterate over *)

\* "for segment in sorted_segments" of get_active_hours, run to its end
RECURSIVE act_loop(_)
act_loop(f) ==
    IF f.i > Len(f.sorted_segments) THEN f
    ELSE act_loop([act_body(f, f.sorted_segments[f.i]) EXCEPT !.i = f.i + 1])

\* "for segment in segments" of get_app_usage, run to its end
RECURSIVE app_loop(_)
app_loop(f) ==
    IF f.i > Len(f.segments) THEN f
    ELSE app_loop([app_body(f, f.segments[f.i]) EXCEPT !.i = f.i + 1])

\* "for event in events" of get_meetings, run to its end
RECURSIVE meet_loop(_)
meet_loop(f) ==
    IF f.i > Len(f.events) THEN f
    ELSE meet_loop([meet_body(f, f.events[f.i]) EXCEPT !.i = f.i + 1])

\* get_active_hours on the window (start_time, end_time)
get_active_hours(table, start_time, end_time) ==
    act_report(act_loop(act_enter(get_segments(table, start_time, end_time),
                                  start_time, end_time)))

\* get_app_usage on the window (start_time, end_time)
get_app_usage(table, start_time, end_time) ==
    app_report(app_loop(app_enter(get_segments(table, start_time, end_time),
                                  start_time, end_time)), end_time)

\* get_meetings on the window (start_time, end_time)
get_meetings(table, start_time, end_time) ==
    meet_report(meet_loop(meet_enter(get_events(table, start_time, end_time),
                                     start_time, end_time)))

----------------------------------------------------------------------------
(* Two invocations of the report builders, run side by side: each has the  *)
(* list it fetched and the locals its function creates on entry, and the   *)
(* two take turns statement block by statement block.                      *)

Builders == {"get_active_hours", "get_app_usage", "get_meetings"}

\* the windows the first and the second invocation are called with
PairWindows ==
    << [start_time |-> T(0, 0, 0, 0), end_time |-> T(3, 0, 0, 0)],
       [start_time |-> T(0, 9, 0, 0), end_time |-> T(0, 10, 0, 0)] >>

\* self.get_segments(start_time, end_time) or self.get_events(...)
call_fetch(fn, table, w) ==
    IF fn = "get_meetings" THEN get_events(table, w.start_time, w.end_time)
    ELSE get_segments(table, w.start_time, w.end_time)

\* the locals a builder creates before its loop
call_enter(fn, given, w) ==
    IF fn = "get_active_hours" THEN act_enter(given, w.start_time, w.end_time)
    ELSE IF fn = "get_app_usage" THEN app_enter(given, w.start_time, w.end_time)
    ELSE meet_enter(given, w.start_time, w.end_time)

\* the list a builder iterates over
call_list(fn, f) ==
    IF fn = "get_active_hours" THEN f.sorted_segments
    ELSE IF fn = "get_app_usage" THEN f.segments
    ELSE f.events

\* one round of the loop of a builder
call_step(fn, f) ==
    IF fn = "get_active_hours"
    THEN [act_body(f, f.sorted_segments[f.i]) EXCEPT !.i = f.i + 1]
    ELSE IF fn = "get_app_usage"
    THEN [app_body(f, f.segments[f.i]) EXCEPT !.i = f.i + 1]
    ELSE [meet_body(f, f.events[f.i]) EXCEPT !.i = f.i + 1]

\* the report a builder returns after its loop
call_report(fn, f) ==
    IF fn = "get_active_hours" THEN act_report(f)
    ELSE IF fn = "get_app_usage" THEN app_report(f, None)
    ELSE meet_report(f)

\* the hour dict among the locals of a builder
call_hours(fn, f) ==
    IF fn = "get_meetings" THEN f.hourly_distribution ELSE f.hourly_activity

call_with_hours(fn, f, hourly) ==
    IF fn = "get_meetings" THEN [f EXCEPT !.hourly_distribution = hourly]
    ELSE [f EXCEPT !.hourly_activity = hourly]

\* an invocation that has not started
Invocation(fn) ==
    [fn |-> fn, pc |-> "idle", given |-> <<>>, frame |-> NoFrame,
     report |-> NoResult]

\* pair_step with one hour dict that both invocations write to
pair_step_shared(cs, t) ==
    LET other == 3 - t
        stepped == call_step(cs[t].fn, cs[t].frame)
        mine == [cs EXCEPT ![t].frame = stepped]
    IN  IF cs[other].pc = "running"
        THEN [mine EXCEPT ![other].frame =
                 call_with_hours(cs[other].fn, @,
                                 call_hours(cs[t].fn, stepped))]
        ELSE mine

\* a round of the loop of invocation t: it writes to its own locals only
pair_step(cs, t) ==
    [cs EXCEPT ![t].frame = call_step(cs[t].fn, cs[t].frame)]

PairCall(t) ==
    /\ calls[t].pc = "idle"
    /\ LET given == call_fetch(calls[t].fn, rows, PairWindows[t])
       IN  calls' = [calls EXCEPT
                        ![t].pc = "running",
                        ![t].given = given,
                        ![t].frame = call_enter(calls[t].fn, given, PairWindows[t])]
    /\ UNCHANGED <<rows, args, clock, pc, app, act, meet, result>>

PairLoop(t) ==
    /\ calls[t].pc = "running"
    /\ calls[t].frame.i <= Len(call_list(calls[t].fn, calls[t].frame))
    /\ calls' = pair_step(calls, t)
    /\ UNCHANGED <<rows, args, clock, pc, app, act, meet, result>>

PairReturn(t) ==
    /\ calls[t].pc = "running"
    /\ calls[t].frame.i > Len(call_list(calls[t].fn, calls[t].frame))
    /\ calls' = [calls EXCEPT
                    ![t].pc = "done",
                    ![t].report = call_report(calls[t].fn, calls[t].frame)]
    /\ UNCHANGED <<rows, args, clock, pc, app, act, meet, result>>

PairInit ==
    /\ rows \in PairTables
    /\ args = Call(None, None, 0, 0, 0, 0)
    /\ clock = T(1, 12, 0, 0)
    /\ pc = "idle"
    /\ app = NoFrame
    /\ act = NoFrame
    /\ meet = NoFrame
    /\ result = NoResult
    /\ calls \in { <<Invocation(first), Invocation(second)>> :
                      first \in Builders, second \in Builders }

PairNext ==
    \E t \in 1..2 :
        \/ PairCall(t)
        \/ PairLoop(t)
        \/ PairReturn(t)

PairSpec == PairInit /\ [][PairNext]_vars

----------------------------------------------------------------------------
(* Vocabulary of the properties *)

Positive(x) == x.end_time > x.start_time

SumHours(hourly) == SumSeq([k \in 1..HoursPerDay |-> hourly[k - 1]])

RECURSIVE SumOver(_, _)
SumOver(d, keys) ==
    IF keys = {} THEN 0
    ELSE LET k == CHOOSE x \in keys : TRUE
         IN  d[k] + SumOver(d, keys \ {k})

SumDict(d) == SumOver(d, DOMAIN d)

\* a step of the loop of each builder, and the interval it processes
ActStep ==
    pc = "get_active_hours" /\ pc' = "get_active_hours" /\ act'.i = act.i + 1

AppStep ==
    pc = "get_app_usage" /\ pc' = "get_app_usage" /\ app'.i = app.i + 1

MeetStep ==
    pc = "get_meetings" /\ pc' = "get_meetings" /\ meet'.i = meet.i + 1

ActSeg == act.sorted_segments[act.i]

AppSeg == app.segments[app.i]

MeetEvent == meet.events[meet.i]

\* the interval a loop has processed last
ActDone == act.sorted_segments[act.i - 1]

AppDone == app.segments[app.i - 1]

MeetDone == meet.events[meet.i - 1]

CrossesHour(x) == HourOf(x.start_time) # HourOf(x.end_time)

Midnights(x) == DateOf(x.end_time) - DateOf(x.start_time)

----------------------------------------------------------------------------
(* C1: hour conservation.  Whenever get_active_hours, get_app_usage or     *)
(* get_meetings processes an interval with end > start, the 24 hour        *)
(* buckets grow, in total, by exactly end - start.                         *)
C1_HourConservation ==
    [][ /\ (ActStep /\ Positive(ActSeg)) =>
            SumHours(act'.hourly_activity) - SumHours(act.hourly_activity)
                = ActSeg.end_time - ActSeg.start_time
        /\ (AppStep /\ Positive(AppSeg)) =>
            SumHours(app'.hourly_activity) - SumHours(app.hourly_activity)
                = AppSeg.end_time - AppSeg.start_time
        /\ (MeetStep /\ Positive(MeetEvent)) =>
            SumHours(meet'.hourly_distribution) - SumHours(meet.hourly_distribution)
                = MeetEvent.end_time - MeetEvent.start_time ]_vars

\* get_active_hours has walked an interval over more than two hour boundaries
C1_Witness ==
    /\ pc = "get_active_hours"
    /\ act.i > 1
    /\ CrossesHour(ActDone)
    /\ ActDone.end_time - ActDone.start_time > 2 * SecondsPerHour
    /\ SumHours(act.hourly_activity) > 2 * SecondsPerHour

(* C2: day conservation.  Whenever get_active_hours or get_meetings        *)
(* processes an interval with end > start, the date buckets grow, in       *)
(* total, by exactly end - start, however many midnights it crosses.       *)
C2_DayConservation ==
    [][ /\ (ActStep /\ Positive(ActSeg)) =>
            SumDict(act'.daily_activity) - SumDict(act.daily_activity)
                = ActSeg.end_time - ActSeg.start_time
        /\ (MeetStep /\ Positive(MeetEvent)) =>
            SumDict(meet'.daily_meeting_hours) - SumDict(meet.daily_meeting_hours)
                = MeetEvent.end_time - MeetEvent.start_time ]_vars

\* get_meetings has processed an event that crosses two midnights
C2_Witness ==
    /\ pc = "get_meetings"
    /\ meet.i > 1
    /\ Positive(MeetDone)
    /\ Midnights(MeetDone) >= 2
    /\ Cardinality(DOMAIN meet.daily_meeting_hours) >= 3

C5_ExactAverage ==
    result.fn = "get_active_hours" =>
        LET r == result.report
            p == r.active_periods
        IN  /\ r.session_count = Len(p)
            /\ \A k \in 1..Len(p) : p[k].duration_seconds = p[k].end - p[k].start
            /\ r.total_active_seconds
                   = SumSeq([k \in 1..Len(p) |-> p[k].duration_seconds])
            /\ IF Len(p) = 0 THEN r.avg_session_seconds = 0
               ELSE r.avg_session_seconds * Len(p) = 100 * r.total_active_seconds

Abs(x) == IF x < 0 THEN -x ELSE x

(* C5, amended: as above, but avg_session_seconds is the quotient rounded  *)
(* to two decimals: it differs from total_active_seconds / session_count   *)
(* by at most half a hundredth.                                            *)
C5_RoundedAverage ==
    result.fn = "get_active_hours" =>
        LET r == result.report
            p == r.active_periods
        IN  /\ r.session_count = Len(p)
            /\ \A k \in 1..Len(p) : p[k].duration_seconds = p[k].end - p[k].start
            /\ r.total_active_seconds
                   = SumSeq([k \in 1..Len(p) |-> p[k].duration_seconds])
            /\ IF Len(p) = 0 THEN r.avg_session_seconds = 0
               ELSE 2 * Abs(r.avg_session_seconds * Len(p)
                            - 100 * r.total_active_seconds) <= Len(p)

\* three sessions whose total is not a multiple of three
C5_Witness ==
    /\ result.fn = "get_active_hours"
    /\ result.report.session_count = 3
    /\ result.report.total_active_seconds % 3 # 0
    /\ result.report.avg_session_seconds > 0

(* C6: an interval with end <= start changes nothing: the loop step that   *)
(* meets it leaves every bucket, every group and the open session of the   *)
(* builder as they were.                                                   *)
C6_NonPositiveSkipped ==
    [][ /\ (ActStep /\ ~Positive(ActSeg)) => act' = [act EXCEPT !.i = act.i + 1]
        /\ (AppStep /\ ~Positive(AppSeg)) => app' = [app EXCEPT !.i = app.i + 1]
        /\ (MeetStep /\ ~Positive(MeetEvent)) =>
               meet' = [meet EXCEPT !.i = meet.i + 1] ]_vars

\* get_active_hours has met a zero-duration segment before any session
\* was open, and has opened none
C6_Witness ==
    /\ pc = "get_active_hours"
    /\ act.i = 2
    /\ ActDone.end_time = ActDone.start_time
    /\ act.current_period_start = None
    /\ Len(act.sorted_segments) >= 2

\* the window the call of the current result was resolved to
WindowStart == result.report.time_range.start

WindowEnd ==
    IF IsAbsolute(args) THEN args.end_time ELSE WindowStart + Delta(args)

\* the table without its k-th row
WithoutRow(table, k) ==
    [j \in 1..(Len(table) - 1) |-> IF j < k THEN table[j] ELSE table[j + 1]]

\* the totals and summary scalars of a report
Scalars(fn, r) ==
    IF fn = "get_active_hours"
    THEN <<r.total_active_seconds, r.session_count, r.avg_session_seconds>>
    ELSE IF fn = "get_app_usage"
    THEN <<r.total_apps, r.total_windows, r.total_urls, r.total_hours>>
    ELSE <<r.total_events, r.total_seconds, r.avg_meeting_seconds,
           r.avg_meeting_minutes>>

\* the report of builder fn on a table
ReportOf(fn, table) ==
    IF fn = "get_active_hours"
    THEN get_active_hours(table, WindowStart, WindowEnd)
    ELSE IF fn = "get_app_usage"
    THEN get_app_usage(table, WindowStart, WindowEnd)
    ELSE get_meetings(table, WindowStart, WindowEnd)

(* C7: an interval with start = end does not affect any total: every       *)
(* summary scalar of a report equals the one computed from the table       *)
(* without that interval.                                                  *)
C7_ZeroIntervalNeutral ==
    result.fn # "none" =>
        \A k \in 1..Len(rows) :
            rows[k].startDate = rows[k].endDate =>
                Scalars(result.fn, result.report)
                    = Scalars(result.fn, ReportOf(result.fn, WithoutRow(rows, k)))

(* C8: the time_range of a report is the resolved window: the arguments    *)
(* in absolute mode, and (now - delta, now) for one reading of now in      *)
(* relative mode, whatever the intervals are.                              *)
C8_TimeRangeIsWindow ==
    result.fn # "none" =>
        LET tr == result.report.time_range
        IN  IF IsAbsolute(args)
            THEN tr.start = args.start_time /\ tr.end = args.end_time
            ELSE tr.end - tr.start = Delta(args)

\* the seconds of [start, end) that lie in clock hour h, over the absolute
\* hours from number k on
RECURSIVE OverlapFrom(_, _, _, _)
OverlapFrom(h, k, start, end) ==
    IF k * SecondsPerHour >= end THEN 0
    ELSE (IF k % HoursPerDay = h
          THEN (IF (k + 1) * SecondsPerHour < end
                THEN (k + 1) * SecondsPerHour ELSE end)
               - Max(start, k * SecondsPerHour)
          ELSE 0)
         + OverlapFrom(h, k + 1, start, end)

Overlap(h, x) ==
    OverlapFrom(h, x.start_time \div SecondsPerHour, x.start_time, x.end_time)

(* C9: an interval with end > start adds to each hour bucket h exactly the *)
(* seconds for which it overlaps clock hour h, also when it spans a day    *)
(* or more and starts and ends in the same hour number.                    *)
C9_HourOverlap ==
    [][ /\ (ActStep /\ Positive(ActSeg)) =>
            \A h \in 0..(HoursPerDay - 1) :
                act'.hourly_activity[h] - act.hourly_activity[h]
                    = Overlap(h, ActSeg)
        /\ (AppStep /\ Positive(AppSeg)) =>
            \A h \in 0..(HoursPerDay - 1) :
                app'.hourly_activity[h] - app.hourly_activity[h]
                    = Overlap(h, AppSeg)
        /\ (MeetStep /\ Positive(MeetEvent)) =>
            \A h \in 0..(HoursPerDay - 1) :
                meet'.hourly_distribution[h] - meet.hourly_distribution[h]
                    = Overlap(h, MeetEvent) ]_vars

\* the segments as calendar events
AsEvents(segs) ==
    [k \in 1..Len(segs) |->
        [id |-> segs[k].id, start_time |-> segs[k].start_time,
         end_time |-> segs[k].end_time, calendar |-> segs[k].application,
         duration_seconds |-> segs[k].duration_seconds]]

(* C10: on one list of intervals the three builders fill the hour buckets  *)
(* alike, and get_active_hours and get_meetings fill the date buckets      *)
(* alike: what get_app_usage has accumulated over the intervals processed  *)
(* so far is what the loops of the other two accumulate over them.         *)
C10_SameBuckets ==
    pc = "get_app_usage" =>
        LET segs == SubSeq(app.segments, 1, app.i - 1)
            a == act_loop(act_enter(segs, None, None))
            m == meet_loop(meet_enter(AsEvents(segs), None, None))
        IN  /\ \A h \in 0..(HoursPerDay - 1) :
                 /\ app.hourly_activity[h] = a.hourly_activity[h]
                 /\ a.hourly_activity[h] = m.hourly_distribution[h]
            /\ a.daily_activity = m.daily_meeting_hours

\* get_app_usage has walked an interval across midnight, where its hour
\* counter wraps around
C10_Witness ==
    /\ pc = "get_app_usage"
    /\ app.i > 1
    /\ Positive(AppDone)
    /\ CrossesHour(AppDone)
    /\ Midnights(AppDone) >= 1
    /\ app.hourly_activity[0] > 0

----------------------------------------------------------------------------
\* the entries of a report's hour list are the 24 hours, all of them zero
ZeroHourList(list, fields) ==
    /\ Len(list) = HoursPerDay
    /\ \A k \in 1..HoursPerDay :
        /\ list[k].hour = k - 1
        /\ \A f \in fields : list[k][f] = 0

(* C13: when the list of intervals a builder iterates over is empty, the   *)
(* report it returns has 24 hour entries that are all zero, empty          *)
(* daily_activity / daily_meeting_hours, top_apps, top_urls,               *)
(* calendar_stats and active_periods lists, and summary scalars that are   *)
(* all 0; the divisor 1 that get_app_usage uses for an empty list leaves   *)
(* the reported total_hours at 0.                                          *)
C13_EmptyReport ==
    [][ /\ (pc = "get_active_hours" /\ pc' = "idle" /\ act.sorted_segments = <<>>) =>
            LET r == result'.report
            IN  /\ ZeroHourList(r.hourly_activity, {"seconds", "hours"})
                /\ r.daily_activity = <<>>
                /\ r.active_periods = <<>>
                /\ r.total_active_seconds = 0 /\ r.total_active_hours = 0
                /\ r.avg_session_seconds = 0 /\ r.avg_session_minutes = 0
                /\ r.session_count = 0
        /\ (pc = "get_app_usage" /\ pc' = "idle" /\ app.segments = <<>>) =>
            LET r == result'.report
            IN  /\ ZeroHourList(r.hourly_activity, {"hours", "percentage"})
                /\ r.top_apps = <<>> /\ r.top_urls = <<>>
                /\ r.total_apps = 0 /\ r.total_windows = 0 /\ r.total_urls = 0
                /\ r.total_hours = 0
        /\ (pc = "get_meetings" /\ pc' = "idle" /\ meet.events = <<>>) =>
            LET r == result'.report
            IN  /\ ZeroHourList(r.hourly_distribution, {"seconds", "hours"})
                /\ r.events = <<>>
                /\ r.calendar_stats = <<>>
                /\ r.daily_meeting_hours = <<>>
                /\ r.total_events = 0 /\ r.total_seconds = 0
                /\ r.total_hours = 0
                /\ r.avg_meeting_seconds = 0 /\ r.avg_meeting_minutes = 0 ]_vars

\* get_app_usage has returned a report for a window that holds none of the
\* rows of a table that is not empty
C13_Witness ==
    /\ result.fn = "get_app_usage"
    /\ rows # <<>>
    /\ IsAbsolute(args)
    /\ get_segments(rows, args.start_time, args.end_time) = <<>>
    /\ result.report.total_apps = 0

\* the seconds a date dict holds for day number d, 0 when it has no entry
Credit(daily, d) ==
    IF IsoFormat(d) \in DOMAIN daily THEN daily[IsoFormat(d)] ELSE 0

\* the seconds of the interval x that fall on day number d
OnDate(d, x) ==
    LET from == Max(x.start_time, d * SecondsPerDay)
        to == IF x.end_time < (d + 1) * SecondsPerDay
              THEN x.end_time ELSE (d + 1) * SecondsPerDay
    IN  IF to > from THEN to - from ELSE 0

\* the date dict after a loop step credits the interval x date by date
DaySplit(before, after, x) ==
    LET first == DateOf(x.start_time)
        last == DateOf(x.end_time)
    IN  /\ \A d \in first..last :
            /\ Credit(after, d) - Credit(before, d) = OnDate(d, x)
            /\ d = first => OnDate(d, x) = NextDay(x.start_time) - x.start_time
            /\ (first < d /\ d < last) => OnDate(d, x) = SecondsPerDay
            /\ d = last => OnDate(d, x) = x.end_time - last * SecondsPerDay
        /\ \A k \in DOMAIN after :
            (\A d \in first..last : k # IsoFormat(d)) =>
                k \in DOMAIN before /\ after[k] = before[k]

(* C16: day-boundary split.  When get_active_hours or get_meetings         *)
(* processes an interval with end > start that crosses one or more         *)
(* midnights, every date receives exactly the seconds of the interval      *)
(* that fall on it: the start date from start to the next midnight, each   *)
(* date in between 86400, the end date from its midnight to end; no other  *)
(* date changes.                                                           *)
C16_DaySplit ==
    [][ /\ (ActStep /\ Positive(ActSeg) /\ Midnights(ActSeg) >= 1) =>
            DaySplit(act.daily_activity, act'.daily_activity, ActSeg)
        /\ (MeetStep /\ Positive(MeetEvent) /\ Midnights(MeetEvent) >= 1) =>
            DaySplit(meet.daily_meeting_hours, meet'.daily_meeting_hours,
                     MeetEvent) ]_vars

\* get_active_hours has processed 23:30 to 00:30 (1800 s to each date) after
\* an interval that had already put seconds on the first date
C16_Witness ==
    /\ pc = "get_active_hours"
    /\ act.i = 3
    /\ Positive(act.sorted_segments[1])
    /\ ActDone.start_time = T(0, 23, 30, 0)
    /\ ActDone.end_time = T(1, 0, 30, 0)
    /\ act.daily_activity[IsoFormat(1)] = 1800
    /\ act.daily_activity[IsoFormat(0)] > 1800

\* a date list names no date twice and runs in strictly ascending order
DatesAscending(list) ==
    /\ \A j, k \in 1..Len(list) : j # k => list[j].date # list[k].date
    /\ \A k \in 1..(Len(list) - 1) : IsoLess(list[k].date, list[k + 1].date)

(* C20: daily_activity of an active-hours report and daily_meeting_hours   *)
(* of a meetings report name each date at most once and in strictly        *)
(* ascending date order.                                                   *)
C20_DatesAscending ==
    /\ result.fn = "get_active_hours" =>
        DatesAscending(result.report.daily_activity)
    /\ result.fn = "get_meetings" =>
        DatesAscending(result.report.daily_meeting_hours)

\* a meetings report over three dates, from a table whose rows are not in
\* start order and where two events touch the same date
C20_Witness ==
    /\ result.fn = "get_meetings"
    /\ Len(result.report.daily_meeting_hours) = 3
    /\ Len(rows) >= 2
    /\ \E k \in 1..(Len(rows) - 1) : rows[k].startDate > rows[k + 1].startDate
    /\ result.report.daily_meeting_hours[2].seconds > SecondsPerDay

\* the 24 buckets of a loop frame, none of them negative
BucketsNonNegative(hourly) ==
    /\ DOMAIN hourly = 0..(HoursPerDay - 1)
    /\ \A h \in DOMAIN hourly : hourly[h] >= 0

\* an hour list of a report: the hours 0..23 in ascending order, once each,
\* with no negative value in the given fields
HourList(list, fields) ==
    /\ Len(list) = HoursPerDay
    /\ \A k \in 1..Len(list) :
        /\ list[k].hour = k - 1
        /\ \A f \in fields : list[k][f] >= 0

(* C19: the hour histogram of every report has exactly 24 entries, for     *)
(* the hours 0..23 in ascending order, each hour once, also when there     *)
(* was no interval; no bucket is negative, neither while the intervals     *)
(* are processed nor in the report.                                        *)
C19_HourHistogram ==
    /\ pc = "get_active_hours" => BucketsNonNegative(act.hourly_activity)
    /\ pc = "get_app_usage" => BucketsNonNegative(app.hourly_activity)
    /\ pc = "get_meetings" => BucketsNonNegative(meet.hourly_distribution)
    /\ result.fn = "get_active_hours" =>
        HourList(result.report.hourly_activity, {"seconds", "hours"})
    /\ result.fn = "get_app_usage" =>
        HourList(result.report.hourly_activity, {"hours", "percentage"})
    /\ result.fn = "get_meetings" =>
        HourList(result.report.hourly_distribution, {"seconds", "hours"})

\* an active-hours report over a table that holds a row ending before it
\* starts, within one clock hour, next to a row that fills that hour bucket
C19_Witness ==
    /\ result.fn = "get_active_hours"
    /\ \E k \in 1..Len(rows) :
        /\ rows[k].endDate < rows[k].startDate
        /\ HourOf(ms_to_datetime(rows[k].startDate))
               = HourOf(ms_to_datetime(rows[k].endDate))
        /\ result.report.hourly_activity[
               HourOf(ms_to_datetime(rows[k].startDate)) + 1].seconds > 0
    /\ IsAbsolute(args)

(* C15: no leaderboard entry carries a None or empty name: an interval     *)
(* whose application id (get_app_usage) or calendar name (get_meetings)    *)
(* is None or empty is counted under "Unknown", so that top_apps and       *)
(* calendar_stats hold at most one entry for all such intervals and none   *)
(* named None or "".                                                       *)
C15_NamesNormalized ==
    /\ result.fn = "get_app_usage" =>
        \A k \in 1..Len(result.report.top_apps) :
            Truthy(result.report.top_apps[k].name)
    /\ result.fn = "get_meetings" =>
        \A k \in 1..Len(result.report.calendar_stats) :
            Truthy(result.report.calendar_stats[k].calendar)

\* the boundary that closes the clock hour in which the interval x starts
Boundary(x) == NextHour(x.start_time)

\* the buckets after a loop step split the interval x at that boundary only
SplitAtBoundary(before, after, x) ==
    LET h == HourOf(x.start_time)
    IN  \A g \in 0..(HoursPerDay - 1) :
            after[g] - before[g] =
                IF g = h THEN Boundary(x) - x.start_time
                ELSE IF g = (h + 1) % HoursPerDay THEN x.end_time - Boundary(x)
                ELSE 0

\* the interval x is shorter than two hours and ends at or after the
\* boundary that closes its start hour
ShortAcrossBoundary(x) ==
    /\ Positive(x)
    /\ x.end_time - x.start_time < 2 * SecondsPerHour
    /\ x.end_time >= Boundary(x)

\* the interval x ends at or after that boundary and at most an hour later
AcrossOneBoundary(x) ==
    /\ Positive(x)
    /\ x.end_time >= Boundary(x)
    /\ x.end_time <= Boundary(x) + SecondsPerHour

(* C17 as stated: an interval shorter than two hours that starts in clock  *)
(* hour h and ends at or after the boundary B closing that hour adds       *)
(* B - start to bucket h and end - B to bucket (h+1) mod 24, and leaves    *)
(* the other 22 buckets unchanged.                                         *)
C17_ShortIntervalSplit ==
    [][ /\ (ActStep /\ ShortAcrossBoundary(ActSeg)) =>
            SplitAtBoundary(act.hourly_activity, act'.hourly_activity, ActSeg)
        /\ (AppStep /\ ShortAcrossBoundary(AppSeg)) =>
            SplitAtBoundary(app.hourly_activity, app'.hourly_activity, AppSeg)
        /\ (MeetStep /\ ShortAcrossBoundary(MeetEvent)) =>
            SplitAtBoundary(meet.hourly_distribution, meet'.hourly_distribution,
                            MeetEvent) ]_vars

(* C17, amended: an interval that starts in clock hour h and ends at or    *)
(* after the boundary B closing that hour, but no later than B + 3600,     *)
(* adds B - start to bucket h and end - B to bucket (h+1) mod 24, and      *)
(* leaves the other 22 buckets unchanged.                                  *)
C17_SingleBoundarySplit ==
    [][ /\ (ActStep /\ AcrossOneBoundary(ActSeg)) =>
            SplitAtBoundary(act.hourly_activity, act'.hourly_activity, ActSeg)
        /\ (AppStep /\ AcrossOneBoundary(AppSeg)) =>
            SplitAtBoundary(app.hourly_activity, app'.hourly_activity, AppSeg)
        /\ (MeetStep /\ AcrossOneBoundary(MeetEvent)) =>
            SplitAtBoundary(meet.hourly_distribution, meet'.hourly_distribution,
                            MeetEvent) ]_vars

\* get_active_hours has processed 13:30 to 14:45 after an interval that had
\* filled bucket 12: 1800 s in bucket 13 and 2700 s in bucket 14
C17_Witness ==
    /\ pc = "get_active_hours"
    /\ act.i = 3
    /\ ActDone.start_time = T(0, 13, 30, 0)
    /\ ActDone.end_time = T(0, 14, 45, 0)
    /\ act.hourly_activity[12] = SecondsPerHour
    /\ act.hourly_activity[13] = 1800
    /\ act.hourly_activity[14] = 2700

\* the app of a usage list that totals the given seconds
AppTotalling(usage, seconds) ==
    usage[CHOOSE k \in 1..Len(usage) : usage[k].total_seconds = seconds].key

GrandTotal(usage) == SumSeq([k \in 1..Len(usage) |-> usage[k].total_seconds])

\* the seconds get_app_usage has accumulated under a key
SecondsOf(usage, key) == usage[KeyIndex(usage, key)].total_seconds

ValueOf(usage, key) == usage[KeyIndex(usage, key)].value

\* pct, in hundredths of a percent, is seconds / total x 100 rounded to two
\* decimals, whichever way a tie is broken
RoundedShare(pct, seconds, total) ==
    2 * Abs(pct * total - 100 * 100 * seconds) <= total

SumPercentages(list) == SumSeq([k \in 1..Len(list) |-> list[k].percentage])

\* every top_apps and top_urls percentage is the entry's rounded share of
\* the total over all apps, and is at most 100
SharesOfGrandTotal(f, r) ==
    LET total == GrandTotal(f.app_usage)
    IN  /\ \A k \in 1..Len(r.top_apps) :
            /\ RoundedShare(r.top_apps[k].percentage,
                            SecondsOf(f.app_usage, r.top_apps[k].name), total)
            /\ r.top_apps[k].percentage <= 100 * 100
        /\ \A k \in 1..Len(r.top_urls) :
            /\ RoundedShare(r.top_urls[k].percentage,
                            ValueOf(f.browser_usage, r.top_urls[k].url), total)
            /\ r.top_urls[k].percentage <= 100 * 100

\* the seconds of the displayed apps
ShownSeconds(f, r) ==
    SumSeq([k \in 1..Len(r.top_apps) |->
                SecondsOf(f.app_usage, r.top_apps[k].name)])

(* C11 as stated: the percentage of every top_apps and top_urls entry is   *)
(* its seconds / (sum of total_seconds over all apps) x 100, to the two    *)
(* decimals reported; no percentage exceeds 100; and with more than 10     *)
(* apps the displayed app percentages sum to less than 100.                *)
C11_SumBelowHundred ==
    [][ (pc = "get_app_usage" /\ pc' = "idle") =>
            /\ SharesOfGrandTotal(app, result'.report)
            /\ Len(app.app_usage) > TopApps =>
                SumPercentages(result'.report.top_apps) < 100 * 100 ]_vars

(* C11, amended: the percentage of every top_apps and top_urls entry is    *)
(* its seconds / (sum of total_seconds over all apps) x 100 rounded to     *)
(* two decimals; no percentage exceeds 100; and with more than 10 apps     *)
(* the seconds of the displayed apps sum to less than that grand total,    *)
(* so that the displayed percentages sum to less than 100.05.              *)
C11_SharesOfGrandTotal ==
    [][ (pc = "get_app_usage" /\ pc' = "idle") =>
            /\ SharesOfGrandTotal(app, result'.report)
            /\ Len(app.app_usage) > TopApps =>
                /\ ShownSeconds(app, result'.report) < GrandTotal(app.app_usage)
                /\ SumPercentages(result'.report.top_apps) < 100 * 100 + 5 ]_vars

\* a report on more than ten apps, ten of them with 2000 s and one with a
\* single second: each displayed percentage is 10.00
C11_Witness ==
    /\ result.fn = "get_app_usage"
    /\ result.report.total_apps > TopApps
    /\ Len(result.report.top_apps) = TopApps
    /\ Len(result.report.top_urls) = TopApps
    /\ \A k \in 1..TopApps : result.report.top_apps[k].percentage = 1000

\* the apps of a usage list as (key, value) pairs, in first-appearance order
AppPairs(usage) ==
    [k \in 1..Len(usage) |->
        [key |-> usage[k].key, value |-> usage[k].total_seconds]]

\* names is the ranking of the (key, value) pairs, which are in
\* first-appearance order: the first `limit` of them by value descending,
\* equal values in first-appearance order, nothing omitted that has more
\* than a listed entry
Ranked(names, pairs, limit) ==
    /\ Len(names) = (IF Len(pairs) < limit THEN Len(pairs) ELSE limit)
    /\ \A k \in 1..Len(names) : KeyIndex(pairs, names[k]) # 0
    /\ \A j, k \in 1..Len(names) :
        j < k =>
            LET a == KeyIndex(pairs, names[j])
                b == KeyIndex(pairs, names[k])
            IN  \/ pairs[a].value > pairs[b].value
                \/ pairs[a].value = pairs[b].value /\ a < b
    /\ \A i \in 1..Len(pairs) :
        (\A k \in 1..Len(names) : names[k] # pairs[i].key) =>
            \A k \in 1..Len(names) :
                pairs[i].value <= pairs[KeyIndex(pairs, names[k])].value

(* C14: ranking order and truncation in get_app_usage.  top_apps lists at  *)
(* most 10 apps by total seconds descending, apps of equal total in        *)
(* first-appearance order; top_urls likewise at most 10 urls; the          *)
(* top_windows of each listed app likewise at most 5 of its windows; and   *)
(* no omitted entry has more seconds than a listed one.                    *)
C14_RankedAndTruncated ==
    [][ (pc = "get_app_usage" /\ pc' = "idle") =>
            LET r == result'.report
            IN  /\ Ranked([k \in 1..Len(r.top_apps) |-> r.top_apps[k].name],
                          AppPairs(app.app_usage), TopApps)
                /\ Ranked([k \in 1..Len(r.top_urls) |-> r.top_urls[k].url],
                          app.browser_usage, TopApps)
                /\ \A k \in 1..Len(r.top_apps) :
                    LET shown == r.top_apps[k].top_windows
                    IN  Ranked([j \in 1..Len(shown) |-> shown[j].name],
                               app.app_usage[KeyIndex(app.app_usage,
                                                      r.top_apps[k].name)].windows,
                               TopWindows) ]_vars

\* a report on one app with more than five windows: the shown windows tie
\* at the top and a window with as many seconds as the last shown is omitted
C14_Witness ==
    /\ result.fn = "get_app_usage"
    /\ Len(result.report.top_apps) = 1
    /\ result.report.top_apps[1].window_count > TopWindows + 2
    /\ Len(result.report.top_apps[1].top_windows) = TopWindows
    /\ result.report.top_apps[1].top_windows[1].percentage
           = result.report.top_apps[1].top_windows[2].percentage
    /\ result.report.top_apps[1].top_windows[2].percentage
           > result.report.top_apps[1].top_windows[TopWindows].percentage
    /\ result.report.top_apps[1].top_windows[1].name # rows[1].windowName

\* the application usage the last call of get_statistics has accumulated;
\* the clock still shows the reading of now the call has taken
StatsUsage ==
    LET week_ago == IF Delta(args) # 0 THEN clock - Delta(args)
                    ELSE clock - TimeDelta(7, 0, 0, 0)
    IN  stats_loop(<<>>, stats_rows(rows, week_ago, clock), 1)

(* C12: the statistics leaderboard never divides by zero: whatever the     *)
(* rows, rows of zero or negative duration included, get_statistics        *)
(* returns its application usage without raising, and when the grand       *)
(* total of the applications is 0 every percentage it reports is 0.        *)
C12_NoDivisionByZero ==
    result.fn = "get_statistics" =>
        /\ result.raised = "nothing"
        /\ SumSeq([k \in 1..Len(StatsUsage) |-> StatsUsage[k].value]) = 0 =>
            \A k \in 1..Len(result.report.app_usage.top_apps) :
                result.report.app_usage.top_apps[k].percentage = 0

WindowsSeen(segments, appid) ==
    { segments[k].window : k \in { j \in 1..Len(segments) :
            /\ segments[j].application = appid
            /\ segments[j].duration_seconds > 0
            /\ Truthy(segments[j].window) } }

\* the usage data get_app_usage holds for the application of a top_apps entry
DataOf(f, entry) == f.app_usage[KeyIndex(f.app_usage, entry.name)]

\* every top_windows percentage is the window's rounded share of its own
\* application's seconds, and window_count counts the windows seen
SharesOfOwnApp(f, r) ==
    \A k \in 1..Len(r.top_apps) :
        LET data == DataOf(f, r.top_apps[k])
            shown == r.top_apps[k].top_windows
        IN  /\ \A j \in 1..Len(shown) :
                RoundedShare(shown[j].percentage,
                             ValueOf(data.windows, shown[j].name),
                             data.total_seconds)
            /\ r.top_apps[k].window_count
                   = Cardinality(WindowsSeen(f.segments, r.top_apps[k].name))

(* C22 as stated: every top_windows percentage is window seconds / the     *)
(* application's own total_seconds x 100, to the two decimals reported;    *)
(* window_count is the number of distinct non-empty window names seen for  *)
(* the application; and the percentages of one application's windows       *)
(* never sum to more than 100.                                             *)
C22_WindowSumAtMostHundred ==
    [][ (pc = "get_app_usage" /\ pc' = "idle") =>
            /\ SharesOfOwnApp(app, result'.report)
            /\ \A k \in 1..Len(result'.report.top_apps) :
                SumPercentages(result'.report.top_apps[k].top_windows)
                    <= 100 * 100 ]_vars

(* C22, amended: every top_windows percentage is window seconds / the      *)
(* application's own total_seconds x 100 rounded to two decimals;          *)
(* window_count is the number of distinct non-empty window names seen for  *)
(* the application; the seconds of one application's windows never sum to  *)
(* more than its total_seconds, so that the percentages of its (at most    *)
(* five) listed windows sum to less than 100.03.                           *)
C22_SharesOfOwnApp ==
    [][ (pc = "get_app_usage" /\ pc' = "idle") =>
            /\ SharesOfOwnApp(app, result'.report)
            /\ \A k \in 1..Len(result'.report.top_apps) :
                LET data == DataOf(app, result'.report.top_apps[k])
                IN  /\ SumSeq([j \in 1..Len(data.windows) |->
                                   data.windows[j].value]) <= data.total_seconds
                    /\ SumPercentages(result'.report.top_apps[k].top_windows)
                           < 100 * 100 + 3 ]_vars

\* a report on one application with three windows, each seen several times,
\* whose percentages are each rounded up
C22_Witness ==
    /\ result.fn = "get_app_usage"
    /\ Len(result.report.top_apps) = 1
    /\ result.report.top_apps[1].window_count = 3
    /\ Len(result.report.top_apps[1].top_windows) = 3
    /\ SumPercentages(result.report.top_apps[1].top_windows) > 100 * 100

\* the report builder fn returns for the window w when it runs alone
Alone(fn, table, w) ==
    IF fn = "get_active_hours"
    THEN get_active_hours(table, w.start_time, w.end_time)
    ELSE IF fn = "get_app_usage"
    THEN get_app_usage(table, w.start_time, w.end_time)
    ELSE get_meetings(table, w.start_time, w.end_time)

(* C23: two invocations of the report builders that take turns in any      *)
(* order do not affect each other: the list each was given stays as it was *)
(* fetched, the list it iterates over is that list (sorted by start for    *)
(* get_active_hours), and the report each returns is the report the        *)
(* builder returns for its window when it runs alone.                      *)
C23_Independent ==
    \A t \in DOMAIN calls :
        /\ calls[t].pc # "idle" =>
            /\ calls[t].given = call_fetch(calls[t].fn, rows, PairWindows[t])
            /\ call_list(calls[t].fn, calls[t].frame)
                   = IF calls[t].fn = "get_active_hours"
                     THEN SortByStartTime(calls[t].given)
                     ELSE calls[t].given
        /\ calls[t].pc = "done" =>
            calls[t].report = Alone(calls[t].fn, rows, PairWindows[t])

\* two invocations of one builder on different lists, the first returned
\* after the second had made a round of its loop and before it made the next
C23_Witness ==
    /\ Len(calls) = 2
    /\ calls[1].fn = calls[2].fn
    /\ calls[1].pc = "done"
    /\ calls[2].pc = "running"
    /\ calls[2].frame.i = 2
    /\ Len(calls[2].given) >= 1
    /\ Len(calls[1].given) > Len(calls[2].given)
    /\ SumHours(call_hours(calls[2].fn, calls[2].frame)) > 0

(* C24: calendar_stats lists every calendar, in descending order of the    *)
(* seconds accumulated for it, calendars with equal seconds in the order   *)
(* in which they first appeared, so that the percentages do not increase   *)
(* down the list.                                                          *)
C24_OrderedBySeconds ==
    [][ (pc = "get_meetings" /\ pc' = "idle") =>
            LET list == result'.report.calendar_stats
                stats == meet.calendar_stats
            IN  /\ Len(list) = Len(stats)
                /\ \A k \in 1..Len(list) : KeyIndex(stats, list[k].calendar) # 0
                /\ \A j, k \in 1..Len(list) :
                    j < k =>
                        LET a == KeyIndex(stats, list[j].calendar)
                            b == KeyIndex(stats, list[k].calendar)
                        IN  /\ \/ stats[a].total_seconds > stats[b].total_seconds
                               \/ /\ stats[a].total_seconds = stats[b].total_seconds
                                  /\ a < b
                            /\ list[j].percentage >= list[k].percentage
      ]_vars

\* the list of dates of a report of get_active_hours or get_meetings
DateList ==
    IF result.fn = "get_active_hours" THEN result.report.daily_activity
    ELSE IF result.fn = "get_meetings" THEN result.report.daily_meeting_hours
    ELSE <<>>

(* C25: every date listed in daily_activity or daily_meeting_hours has     *)
(* seconds > 0; in particular an interval that ends exactly at midnight    *)
(* creates no entry for the date that begins at that midnight.             *)
C25_DatesHaveActivity ==
    \A k \in 1..Len(DateList) : DateList[k].seconds > 0

\* the number of multiples of unit strictly between start and end
Inside(unit, start_time, end_time) ==
    ((end_time - 1) \div unit) - (start_time \div unit)

WalkUnit == IF pc = "day_walk" THEN SecondsPerDay ELSE SecondsPerHour

(* C26: the hour walk and the day walk terminate.  Every round moves the   *)
(* cursor forward, to the first hour boundary (midnight, for the day walk) *)
(* after it; a walk makes at most one round more than there are hour       *)
(* boundaries (midnights) strictly inside the interval, and leaves the     *)
(* buckets as the loop run as a whole leaves them; and every loop and      *)
(* every report builder that has started returns.                          *)
C26_WalksTerminate ==
    /\ [][ /\ (pc \in Walks /\ pc' = pc) =>
                LET f == WalkFrame
                    g == WalkFrame'
                IN  /\ g.current_time > f.current_time
                    /\ g.current_time % WalkUnit = 0
                    /\ g.current_time - f.current_time <= WalkUnit
                    /\ g.i = f.i + 1
                    /\ g.i <= Inside(WalkUnit, f.segment.start_time,
                                     f.segment.end_time) + 1
           /\ (pc = "hour_walk" /\ pc' = "idle") =>
                act.hourly_activity
                    = act_hour_walk(ZeroHours, act.segment.start_time,
                                    act.segment.end_time)
           /\ (pc = "day_walk" /\ pc' = "idle") =>
                act.daily_activity
                    = act_day_walk(SetDefault(EmptyDict,
                                       IsoFormat(DateOf(act.segment.start_time))),
                                   DateOf(act.segment.start_time),
                                   act.segment.start_time,
                                   DateOf(act.segment.end_time)).daily
           /\ (pc = "app_hour_walk" /\ pc' = "idle") =>
                app.hourly_activity
                    = app_hour_walk(ZeroHours, HourOf(app.segment.start_time),
                                    app.segment.start_time,
                                    app.segment.end_time)
         ]_vars
    /\ (pc # "idle") ~> (pc = "idle")

\* a day walk over an interval with two midnights has returned after two
\* rounds
C26_Witness ==
    /\ pc = "idle"
    /\ result.fn = "day_walk"
    /\ result.rounds = 2

\* segment x lies inside session p
Within(x, p) == p.start <= x.start_time /\ x.end_time <= p.end

(* C27: in a report of get_active_hours every segment with end > start     *)
(* lies inside exactly one session of active_periods; every session starts *)
(* where some such segment starts, ends where some such segment ends, and  *)
(* has duration_seconds = end - start > 0.                                 *)
C27_SessionsCoverSegments ==
    [][ (pc = "get_active_hours" /\ pc' = "idle") =>
            LET segs == act.sorted_segments
                periods == result'.report.active_periods
            IN  /\ \A k \in 1..Len(segs) :
                    Positive(segs[k]) =>
                        Cardinality({ p \in 1..Len(periods) :
                                        Within(segs[k], periods[p]) }) = 1
                /\ \A p \in 1..Len(periods) :
                    /\ \E k \in 1..Len(segs) :
                        Positive(segs[k]) /\ segs[k].start_time = periods[p].start
                    /\ \E k \in 1..Len(segs) :
                        Positive(segs[k]) /\ segs[k].end_time = periods[p].end
                    /\ periods[p].duration_seconds
                           = periods[p].end - periods[p].start
                    /\ periods[p].duration_seconds > 0
      ]_vars

\* a report with two sessions, the first merged from two segments of which
\* the second ends before the first does
C27_Witness ==
    /\ result.fn = "get_active_hours"
    /\ Len(rows) = 3
    /\ \E j, k \in 1..Len(rows) : rows[j].id = 2 /\ rows[k].id = 5
    /\ Len(result.report.active_periods) = 2
    /\ result.report.active_periods[1].duration_seconds = 1800

(* C28: in a report of get_meetings total_events is the sum of event_count *)
(* over the entries of calendar_stats.                                     *)
C28_EventsCountedOnce ==
    result.fn = "get_meetings" =>
        result.report.total_events
            = SumSeq([k \in 1..Len(result.report.calendar_stats) |->
                         result.report.calendar_stats[k].event_count])

\* the sum of the hourly percentages of a report of get_app_usage
HourlyPercentages(r) == SumPercentages(r.hourly_activity)

(* C29 as stated: the hourly percentages of a report of get_app_usage add  *)
(* up to 100 whenever there is any usage.                                  *)
C29_PercentagesAddToHundred ==
    [][ (pc = "get_app_usage" /\ pc' = "idle" /\ GrandTotal(app.app_usage) > 0) =>
            HourlyPercentages(result'.report) = 100 * 100
      ]_vars

(* C29: bucket totals agree with the grand total.  In get_meetings the 24  *)
(* hourly_distribution seconds, the daily_meeting_hours seconds and the    *)
(* calendar totals each sum to total_seconds.  In get_app_usage the 24     *)
(* hourly bucket seconds sum to the grand total over all apps, the         *)
(* percentage denominator; each hourly percentage is the bucket's share    *)
(* rounded to two decimals, so the percentages add up to 100 within 0.12.  *)
C29_BucketTotalsAgree ==
    [][ /\ (pc = "get_meetings" /\ pc' = "idle") =>
            LET r == result'.report
            IN  /\ SumHours(meet.hourly_distribution) = meet.total_duration
                /\ SumDict(meet.daily_meeting_hours) = meet.total_duration
                /\ SumSeq([k \in 1..Len(meet.calendar_stats) |->
                              meet.calendar_stats[k].total_seconds])
                       = meet.total_duration
                /\ r.total_seconds = meet.total_duration
                /\ SumSeq([k \in 1..Len(r.hourly_distribution) |->
                              r.hourly_distribution[k].seconds]) = r.total_seconds
                /\ SumSeq([k \in 1..Len(r.daily_meeting_hours) |->
                              r.daily_meeting_hours[k].seconds]) = r.total_seconds
        /\ (pc = "get_app_usage" /\ pc' = "idle") =>
            LET r == result'.report
                total == GrandTotal(app.app_usage)
            IN  /\ SumHours(app.hourly_activity) = total
                /\ total > 0 =>
                    /\ \A k \in 1..HoursPerDay :
                        RoundedShare(r.hourly_activity[k].percentage,
                                     app.hourly_activity[k - 1], total)
                    /\ Abs(HourlyPercentages(r) - 100 * 100) <= 12
      ]_vars

\* a report of get_app_usage whose hourly percentages are 1.61, 96.77 and
\* 1.61
C29_Witness ==
    /\ result.fn = "get_app_usage"
    /\ HourlyPercentages(result.report) = 9999
    /\ result.report.hourly_activity[14].percentage = 161
    /\ result.report.hourly_activity[15].percentage = 9677
    /\ result.report.hourly_activity[16].percentage = 161

\* the recorder was used in the window of the call
RecorderUsed ==
    LET segments == get_segments(rows, args.start_time, args.end_time)
    IN  \E k \in 1..Len(segments) :
            /\ segments[k].application = Recorder
            /\ Positive(segments[k])

(* C30: display_app_usage shows as "Total Apps Used" the total_apps of the *)
(* report minus 1 exactly when the recorder was used in the window, and    *)
(* total_apps otherwise, and never lists the recorder.                     *)
C30_RecorderNeverCounted ==
    [][ (result.fn = "get_app_usage" /\ result'.fn = "display_app_usage") =>
            LET printed == result'.printed
            IN  /\ printed.total_apps
                       = result.report.total_apps
                             - (IF RecorderUsed THEN 1 ELSE 0)
                /\ \A k \in 1..Len(printed.table) :
                    printed.table[k].name # Recorder
      ]_vars

====
